---- MODULE Spec2Model ----
(***************************************************************************)
(* Model of vx-track (streamlit_app.py): the time-entry poster             *)
(* _post_time_entry_tw, the batch submission loops, the Viasell extraction *)
(* strategies, normalizar_data and get_tasks_by_tag_and_project.           *)
(*                                                                         *)
(* Text that the code slices, splits or pads is a sequence of one-char     *)
(* strings; text it only carries around is a TLA+ string.                  *)
(***************************************************************************)
EXTENDS Integers, Sequences, FiniteSets, TLC

VARIABLES
    reg,            \* poster: the RegistroAtividade handed to _post_time_entry_tw
    poster,         \* poster: locals of one _post_time_entry_tw call
    faults,         \* poster: transport faults the server has produced so far
    registros_selecionados, \* batch: the selected records, in selection order
    which,          \* batch: which of the two submission loops runs
    batch,          \* batch: locals of the submission loop
    linhas,         \* extraction: the document's lines
    extr,           \* extraction: locals of extrair_dados_viasell_corrigido
    data_str,       \* normalizar_data: the argument
    norm,           \* normalizar_data: results of the first and second application
    tw,             \* task fetch: the server's task tree and the call's arguments
    tarefas,        \* task fetch: the list get_tasks_by_tag_and_project returned
    fetch,          \* paginated fetch: the server's pages and the loop's locals
    sug,            \* suggest_task_for_activity: the arguments and the result
    fp,             \* create_fingerprint: two inputs and their fingerprints
    log,            \* batch log: the file's content and what was written and read
    ficha,          \* service sheet: its status and the steps of its conclusion
    dur,            \* duration conversions: the string and the derived values
    desc,           \* buscar_descricao_serv_exec: the lines, the anchor, the result
    carga,          \* loading persisted state: the files and what was read
    cache,          \* TeamworkClient.get_tasks_for_project: the cache and the calls
    auth            \* TeamworkClient._request: the auth mode and the requests sent

vars == <<reg, poster, faults, registros_selecionados, which, batch,
          linhas, extr, data_str, norm, tw, tarefas,
          fetch, sug, fp, log, ficha, dur, desc, carga, cache, auth>>

posterVars == <<reg, poster, faults>>
batchVars  == <<registros_selecionados, which, batch>>
extrVars   == <<linhas, extr>>
dateVars   == <<data_str, norm>>
taskVars   == <<tw, tarefas>>
moreVars   == <<desc, carga, cache, auth>>
restVars   == <<fetch, sug, fp, log, ficha, dur, moreVars>>

(***************************************************************************)
(* Text helpers (Python str/int semantics on the alphabets used here)      *)
(***************************************************************************)
DigitChars == <<"0", "1", "2", "3", "4", "5", "6", "7", "8", "9">>

IsDigit(c) == \E i \in 1..Len(DigitChars) : DigitChars[i] = c

DigitVal(c) == (CHOOSE i \in 1..Len(DigitChars) : DigitChars[i] = c) - 1

\* str.isdigit(): non-empty and all digits
IsDigits(s) == s # <<>> /\ \A i \in 1..Len(s) : IsDigit(s[i])

RECURSIVE IntOf(_)
\* int(x) for a digit string
IntOf(s) ==
    IF s = <<>> THEN 0
    ELSE IntOf(SubSeq(s, 1, Len(s) - 1)) * 10 + DigitVal(s[Len(s)])

RECURSIVE Split(_, _)
\* s.split(sep) for a one-character separator
Split(s, sep) ==
    IF \A i \in 1..Len(s) : s[i] # sep THEN <<s>>
    ELSE LET k == CHOOSE i \in 1..Len(s) :
                      s[i] = sep /\ \A j \in 1..(i - 1) : s[j] # sep
         IN  <<SubSeq(s, 1, k - 1)>> \o Split(SubSeq(s, k + 1, Len(s)), sep)

\* s[:n]
Take(s, n) == SubSeq(s, 1, IF Len(s) < n THEN Len(s) ELSE n)

\* s.replace(old, new) for one-character old and new
Replace(s, old, new) == [i \in 1..Len(s) |-> IF s[i] = old THEN new ELSE s[i]]

RECURSIVE Strip(_)
\* s.strip()
Strip(s) ==
    IF s = <<>> THEN s
    ELSE IF s[1] = " " THEN Strip(SubSeq(s, 2, Len(s)))
    ELSE IF s[Len(s)] = " " THEN Strip(SubSeq(s, 1, Len(s) - 1))
    ELSE s

\* s.zfill(2) for an unsigned string
Zfill2Mut(s) == s

Zfill2(s) ==
    IF Len(s) = 0 THEN <<"0", "0">>
    ELSE IF Len(s) = 1 THEN <<"0">> \o s
    ELSE s

(***************************************************************************)
(* normalizar_data                                                         *)
(***************************************************************************)
normalizar_data(d) ==
    LET data_clean == Replace(Replace(Strip(d), "-", "/"), ".", "/")
        parts == Split(data_clean, "/")
    IN  IF Len(parts) = 3
        THEN LET dia == parts[1]
                 mes == parts[2]
                 ano == IF Len(parts[3]) = 2 THEN <<"2", "0">> \o parts[3]
                        ELSE parts[3]
             IN  Zfill2(dia) \o <<"/">> \o Zfill2(mes) \o <<"/">> \o ano
        ELSE d

(***************************************************************************)
(* datetime.strptime(reg.data, "%d/%m/%Y"): whether it parses              *)
(***************************************************************************)
IsLeap(y) == (y % 4 = 0 /\ y % 100 # 0) \/ y % 400 = 0

DaysIn(m, y) ==
    IF m = 2 THEN (IF IsLeap(y) THEN 29 ELSE 28)
    ELSE IF m \in {4, 6, 9, 11} THEN 30
    ELSE 31

StrptimeOk(s) ==
    LET parts == Split(s, "/")
    IN  /\ Len(parts) = 3
        /\ \A i \in 1..3 : IsDigits(parts[i])
        /\ Len(parts[1]) \in {1, 2}
        /\ Len(parts[2]) \in {1, 2}
        /\ Len(parts[3]) = 4
        /\ IntOf(parts[2]) \in 1..12
        /\ IntOf(parts[3]) >= 1
        /\ IntOf(parts[1]) >= 1
        /\ IntOf(parts[1]) <= DaysIn(IntOf(parts[2]), IntOf(parts[3]))

\* dt.strftime("%Y%m%d") and dt.strftime("%Y-%m-%d") of a parsed date
DateNum(s) ==
    LET parts == Split(s, "/")
    IN  parts[3] \o Zfill2(parts[2]) \o Zfill2(parts[1])

DateIso(s) ==
    LET parts == Split(s, "/")
    IN  parts[3] \o <<"-">> \o Zfill2(parts[2]) \o <<"-">> \o Zfill2(parts[1])

(***************************************************************************)
(* Duration conversions of the poster                                      *)
(***************************************************************************)
\* [int(x) for x in (hms or "0:0:0").split(":")]: the parts, and whether the
\* unpacking into h, m, s succeeds
HmsParts(hms) == Split(IF hms = <<>> THEN <<"0", ":", "0", ":", "0">> ELSE hms, ":")

HmsParses(hms) ==
    /\ Len(HmsParts(hms)) = 3
    /\ \A i \in 1..3 : IsDigits(HmsParts(hms)[i])

\* h*3600 + m*60 + s of a string that parses
HmsSeconds(hms) ==
    IntOf(HmsParts(hms)[1]) * 3600 + IntOf(HmsParts(hms)[2]) * 60
        + IntOf(HmsParts(hms)[3])

\* int(round(x / d)) for naturals: Python 3 rounds a tie to the even neighbour
RoundHalfEvenMut(x, d) == x \div d

RoundHalfEven(x, d) ==
    LET q == x \div d
        r == x % d
    IN  IF 2 * r < d THEN q
        ELSE IF 2 * r > d THEN q + 1
        ELSE IF q % 2 = 0 THEN q ELSE q + 1

\* _hms_to_h_m: (hours, minutes)
hms_to_h_m(hms) ==
    IF ~HmsParses(hms) THEN <<0, 0>>
    ELSE LET total_min == RoundHalfEven(HmsSeconds(hms), 60)
         IN  <<total_min \div 60, total_min % 60>>

\* _hms_to_decimal: the two-decimal string, held as hundredths of an hour
\* ("0" on a parse failure is 0 hundredths). At an exact tie the binary sum
\* h + m/60.0 + s/3600.0 decides the digit; the durations modelled have none.
\* The same with the digits after the second cut off
hms_to_decimalTrunc(hms) ==
    IF ~HmsParses(hms) THEN 0 ELSE HmsSeconds(hms) \div 36

hms_to_decimal(hms) ==
    IF ~HmsParses(hms) THEN 0
    ELSE LET q == HmsSeconds(hms) \div 36
             r == HmsSeconds(hms) % 36
         IN  IF 2 * r > 36 THEN q + 1 ELSE q

(***************************************************************************)
(* _post_time_entry_tw                                                     *)
(***************************************************************************)
\* The server's answers to one POST: a response (status code, and whether
\* r.json() can decode the body) or a request exception such as a timeout.
Created  == [kind |-> "resp", status |-> 201, json |-> TRUE]
NoBody   == [kind |-> "resp", status |-> 204, json |-> FALSE]
Rejected == [kind |-> "resp", status |-> 400, json |-> TRUE]
TimedOut == [kind |-> "exc", status |-> 0, json |-> FALSE]
NoResp   == [kind |-> "none", status |-> 0, json |-> FALSE]

Responses == {Created, NoBody, Rejected, TimedOut}

\* task_id_i = int(reg.tarefa_id) if str(reg.tarefa_id).isdigit() else None
\* (None is -1 here; "if task_id_i:" is false for None and for 0)
task_id_i(r) == IF IsDigits(r.tarefa_id) THEN IntOf(r.tarefa_id) ELSE -1

user_id_i(r) == IF IsDigits(r.executor_id) THEN IntOf(r.executor_id) ELSE -1

HasTaskEndpointMut(r) == TRUE

HasTaskEndpoint(r) == task_id_i(r) > 0

\* endpoints, by scope
Endpoints(r) ==
    (IF HasTaskEndpoint(r) THEN <<"task">> ELSE <<>>) \o <<"project", "global">>

\* time_hm = (reg.hr_inicio or "00:00")[:5]
time_hm(r) ==
    Take(IF r.hr_inicio = <<>> THEN <<"0", "0", ":", "0", "0">> ELSE r.hr_inicio, 5)

\* hh, mm with the one-minute floor of lines 997-999
FloorHM(hm) == IF hm[1] = 0 /\ hm[2] = 0 THEN <<0, 1>> ELSE hm

hh_mm(r) == FloorHM(hms_to_h_m(r.total_hrs))

\* The "time-entry" object a payload builder returns, after the stripping of
\* empty values at line 1065. Absent keys are -1 (numbers) or <<>> (text).
\* billEnc tells how isbillable/isBillable is encoded: int 1/0, str "1"/"0"
\* or bool.
TimeEntry(r, style, date_value, use_decimal, include_time, billEnc) ==
    [ style       |-> style,
      date        |-> date_value,
      description |-> r.descricao,
      billEnc     |-> billEnc,
      billable    |-> r.faturavel,
      time        |-> IF include_time THEN time_hm(r) ELSE <<>>,
      durEnc      |-> IF use_decimal THEN "decimal" ELSE "hm",
      hours       |-> IF use_decimal THEN -1 ELSE hh_mm(r)[1],
      minutes     |-> IF use_decimal THEN -1 ELSE hh_mm(r)[2],
      hours_dec   |-> IF use_decimal THEN hms_to_decimal(r.total_hrs) ELSE -1,
      task_id     |-> IF task_id_i(r) > 0 THEN task_id_i(r) ELSE -1,
      person_id   |-> IF user_id_i(r) > 0 THEN user_id_i(r) ELSE -1 ]

payload_kebab(r, date_value, use_decimal, include_time, bill_as_int) ==
    TimeEntry(r, "kebab", date_value, use_decimal, include_time,
              IF bill_as_int THEN "int" ELSE "str")

payload_camel(r, date_value, use_decimal, include_time) ==
    TimeEntry(r, "camel", date_value, use_decimal, include_time, "bool")

\* payloads, in the order of lines 1047-1059 (reg.data parses)
Payloads(r) ==
    LET date_num == DateNum(r.data)
        date_iso == DateIso(r.data)
    IN  << payload_kebab(r, date_num, FALSE, TRUE, TRUE),
           payload_kebab(r, date_num, FALSE, TRUE, FALSE),
           payload_kebab(r, date_iso, FALSE, TRUE, TRUE),
           payload_kebab(r, date_num, TRUE, TRUE, TRUE),
           payload_camel(r, date_num, FALSE, TRUE),
           payload_camel(r, date_num, TRUE, TRUE),
           payload_kebab(r, date_num, FALSE, FALSE, TRUE),
           payload_camel(r, date_num, FALSE, FALSE) >>

NPayloads == 8

\* erros[-3:]
LastErrosMut(erros) == SubSeq(erros, 1, IF Len(erros) < 3 THEN Len(erros) ELSE 3)

\* The last three, newest first
LastErrosNewestFirst(erros) ==
    LET n == IF Len(erros) < 3 THEN Len(erros) ELSE 3
    IN  [k \in 1..n |-> erros[Len(erros) - k + 1]]

LastErros(erros) ==
    SubSeq(erros, IF Len(erros) > 3 THEN Len(erros) - 2 ELSE 1, Len(erros))

\* The locals before the call
PosterIdle ==
    [ pc |-> "idle", endpoints |-> <<>>, payloads |-> <<>>, ep |-> 1, pay |-> 1,
      erros |-> <<>>,
      posts |-> <<>>, last_resp |-> NoResp, error |-> "None", detail |-> <<>> ]

\* Lines 985-1062: everything before the attempt loop. strptime raises
\* ValueError when reg.data is not a calendar date in dd/mm/YYYY form.
PostPrepare(r) ==
    IF ~StrptimeOk(r.data)
    THEN [PosterIdle EXCEPT !.pc = "raised", !.error = "ValueError"]
    ELSE [PosterIdle EXCEPT !.pc = "loop", !.endpoints = Endpoints(r),
                            !.payloads = Payloads(r)]

\* Leaving the loops: lines 1075-1076
PostExhausted(p) ==
    [p EXCEPT !.pc = "raised", !.error = "HTTPError", !.detail = LastErros(p.erros)]

\* The next (ep, pay) of the nested for loops, or the raise after the last
PostAdvance(p) ==
    IF p.pay < NPayloads THEN [p EXCEPT !.pay = p.pay + 1]
    ELSE IF p.ep < Len(p.endpoints) THEN [p EXCEPT !.ep = p.ep + 1, !.pay = 1]
    ELSE PostExhausted(p)

\* A response with status < 400 ends the call only if r.json() decodes it:
\* r.json() is inside the try, so its failure is caught at line 1072
ReturnsOn(resp) == resp.kind = "resp" /\ resp.status < 400 /\ resp.json

\* One pass of the loop body, lines 1065-1073, for the answer resp.
\* posts is the record of the POSTs issued, as the server saw them; an erros
\* entry is (ep, status or "EXC", te, text), te being payloads[pay].
PostStep(p, resp) ==
    LET sent == [p EXCEPT
                   !.posts = Append(p.posts,
                       [ ep |-> p.endpoints[p.ep], pay |-> p.pay,
                         te |-> p.payloads[p.pay], resp |-> resp ]),
                   !.last_resp = IF resp.kind = "resp" THEN resp ELSE p.last_resp]
    IN  IF ReturnsOn(resp)
        THEN [sent EXCEPT !.pc = "returned"]
        ELSE PostAdvance([sent EXCEPT
                 !.erros = Append(p.erros,
                     [ ep  |-> p.endpoints[p.ep],
                       st  |-> IF resp.kind = "resp" /\ resp.status >= 400
                               THEN "HTTP" ELSE "EXC",
                       status |-> IF resp.kind = "resp" /\ resp.status >= 400
                                  THEN resp.status ELSE 0,
                       pay |-> p.pay ])])

\* Records the poster is called with. data is what normalizar_data made of a
\* date token the extraction patterns accept; total_hrs is a time token, or
\* empty or cut short as a caller's reg_data.get('total_hrs', '') can be.
RawDatas ==
    { <<"5", "/", "1", "/", "2", "4">>,
      <<"3", "1", "/", "0", "2", "/", "2", "0", "2", "4">> }

TaskIds == { <<"7", "7">>, <<"0">>, <<>> }

Durations ==
    { <<>>,
      <<"1", ":", "3", "0">>,
      <<"0", "0", ":", "0", "0", ":", "1", "0">>,
      <<"0", "0", ":", "0", "0", ":", "2", "9">>,
      <<"0", ":", "0", "0", ":", "3", "0">>,
      <<"0", "0", ":", "0", "2", ":", "3", "0">>,
      <<"0", "0", ":", "5", "9", ":", "4", "5">>,
      <<"0", "4", ":", "0", "0", ":", "0", "0">> }

Registro(data, total_hrs, tarefa_id) ==
    [ data        |-> data,
      hr_inicio   |-> <<"0", "8", ":", "0", "0", ":", "0", "0">>,
      total_hrs   |-> total_hrs,
      descricao   |-> "Ficha 123 - Atividade executada.",
      faturavel   |-> TRUE,
      tarefa_id   |-> tarefa_id,
      executor_id |-> <<>> ]

PosterRegs ==
    { Registro(normalizar_data(d), t, <<"7", "7">>) :
          d \in RawDatas, t \in Durations }
    \cup
    { Registro(normalizar_data(d), <<"0", "4", ":", "0", "0", ":", "0", "0">>, k) :
          d \in RawDatas, k \in TaskIds }

\* Transport faults (timeouts, undecodable bodies) the server may produce
\* during one call; rejections with status 400 are not limited.
MaxFaults == 1

IsFault(resp) == resp \in {NoBody, TimedOut}

(***************************************************************************)
(* One call of the poster, POST by POST                                    *)
(***************************************************************************)
IdleBatch == [pc |-> "idle", i |-> 1, sucesso_count |-> 0, falha_count |-> 0,
              erros |-> <<>>, invocations |-> <<>>]

IdleExtr == [pc |-> "idle", registros |-> <<>>, fonte |-> <<>>, ran |-> {}]

IdleNorm == [pc |-> "idle", partes |-> <<>>, first |-> <<>>, second |-> <<>>]

IdleTw == [pc |-> "idle", n |-> 0, parent |-> <<>>, tags |-> <<>>,
           dup |-> "none", items |-> <<>>,
           tag_query |-> <<>>, inherit_from_parent |-> TRUE]

IdleFetch == [pc |-> "idle", fn |-> "none", n |-> 0, phase |-> 1, page |-> 1,
              page_size |-> 0, items_all |-> <<>>, pages |-> <<>>,
              reqs |-> <<>>, failed |-> FALSE, result |-> <<>>, faults |-> 0]

IdleSug == [pc |-> "idle", activity_text |-> <<>>, phase |-> <<>>,
            meta |-> [ticket |-> <<>>, ficha |-> <<>>, cliente |-> <<>>],
            tasks |-> <<>>, result |-> <<>>]

IdleFp == [pc |-> "idle", a |-> <<>>, b |-> <<>>, fa |-> <<>>, fb |-> <<>>]

IdleLog == [pc |-> "idle", exists |-> FALSE, content |-> <<>>, antes |-> <<>>,
            written |-> <<>>, lidos |-> <<>>]

IdleFicha == [fichas |-> <<>>, fichas_file |-> <<>>, pdf |-> <<>>,
              now |-> [seg |-> 0, meio |-> 0], criadas |-> 0, nregs |-> 0]

IdleDur == [pc |-> "idle", hms |-> <<>>, h_m |-> <<0, 0>>, decimal |-> 0,
            pdf_minutes |-> 0, pdf_decimal |-> 0, tie_up |-> FALSE,
            tie_up_pdf |-> FALSE]

IdleDesc == [pc |-> "idle", linhas |-> <<>>, idx |-> 0, result |-> <<>>]

IdleCarga == [pc_fichas |-> "idle", exists |-> FALSE, raw |-> <<>>,
              fichas |-> <<>>, erro |-> FALSE,
              pc_logs |-> "idle", content |-> <<>>, lidos |-> <<>>]

\* tag_filter: None, or a string
NoTag == [given |-> FALSE, v |-> <<>>]

NoCall == [project_id |-> 0, include_completed |-> FALSE, tag_filter |-> NoTag,
           use_cache |-> FALSE, page_size |-> 0, requests |-> 0,
           raised |-> FALSE, result |-> <<>>]

IdleCache == [pc |-> "idle", has |-> {}, val |-> <<>>, versao |-> 0,
              ncalls |-> 0, last |-> NoCall]

IdleAuth == [pc |-> "idle", auth_mode |-> "", active_mode |-> "",
             ctor_mode |-> "", ncalls |-> 0, nsent |-> 0,
             last |-> [sent |-> <<>>, raised |-> FALSE]]

MoreIdle ==
    /\ desc = IdleDesc /\ carga = IdleCarga
    /\ cache = IdleCache /\ auth = IdleAuth

RestIdle ==
    /\ fetch = IdleFetch /\ sug = IdleSug /\ fp = IdleFp
    /\ log = IdleLog /\ ficha = IdleFicha /\ dur = IdleDur
    /\ MoreIdle

\* Everything but the variables of moreVars is as before any call
BaseIdle ==
    /\ reg = Registro(<<>>, <<>>, <<>>) /\ poster = PosterIdle /\ faults = 0
    /\ registros_selecionados = <<>> /\ which = "none" /\ batch = IdleBatch
    /\ linhas = <<>> /\ extr = IdleExtr
    /\ data_str = <<>> /\ norm = IdleNorm
    /\ tw = IdleTw /\ tarefas = <<>>
    /\ fetch = IdleFetch /\ sug = IdleSug /\ fp = IdleFp
    /\ log = IdleLog /\ ficha = IdleFicha /\ dur = IdleDur

baseVars == <<posterVars, batchVars, extrVars, dateVars, taskVars,
              fetch, sug, fp, log, ficha, dur>>

OthersIdleForPoster ==
    /\ registros_selecionados = <<>> /\ which = "none" /\ batch = IdleBatch
    /\ linhas = <<>> /\ extr = IdleExtr
    /\ data_str = <<>> /\ norm = IdleNorm
    /\ tw = IdleTw /\ tarefas = <<>>
    /\ RestIdle

InitPoster ==
    /\ reg \in PosterRegs
    /\ poster = PosterIdle
    /\ faults = 0
    /\ OthersIdleForPoster

PostStart ==
    /\ poster.pc = "idle"
    /\ poster' = PostPrepare(reg)
    /\ UNCHANGED <<reg, faults, batchVars, extrVars, dateVars, taskVars, restVars>>

PostAttempt ==
    /\ poster.pc = "loop"
    /\ \E resp \in Responses :
          /\ IsFault(resp) => faults < MaxFaults
          /\ poster' = PostStep(poster, resp)
          /\ faults' = IF IsFault(resp) THEN faults + 1 ELSE faults
    /\ UNCHANGED <<reg, batchVars, extrVars, dateVars, taskVars, restVars>>

NextPoster == PostStart \/ PostAttempt

SpecPoster == InitPoster /\ [][NextPoster]_vars

(***************************************************************************)
(* Properties of the poster                                                *)
(***************************************************************************)
NonError(resp) == resp.kind = "resp" /\ resp.status < 400

\* C1: the first POST answered with a status code below 400 ends the attempt
\* loop, whatever the body: the call has returned success for it and no POST
\* follows it.
C1_FirstNonErrorEndsLoop ==
    \A i \in 1..Len(poster.posts) :
        NonError(poster.posts[i].resp) =>
            i = Len(poster.posts) /\ poster.pc = "returned"

\* C2: the only error that leaves the poster is the aggregated HTTPError, and
\* it is raised only after every endpoint x payload combination was attempted
\* and failed.
C2_OnlyAggregatedError ==
    poster.pc = "raised" =>
        /\ poster.error = "HTTPError"
        /\ Len(poster.posts) = Len(poster.endpoints) * NPayloads
        /\ Len(poster.erros) = Len(poster.posts)

All24Rejected ==
    /\ poster.pc = "raised"
    /\ Len(poster.posts) = 24
    /\ \A i \in 1..24 : poster.posts[i].resp = Rejected

\* C3: when all 24 attempts return HTTP 400, the error detail holds exactly 3
\* attempt summaries, those of the 3 attempts made last (payload variants 6, 7
\* and 8 on the global endpoint).
C3_LastThreeOnAll400 ==
    All24Rejected =>
        /\ Len(poster.detail) = 3
        /\ { <<poster.detail[k].ep, poster.detail[k].status, poster.detail[k].pay>> :
                 k \in 1..3 }
               = { <<poster.posts[j].ep, poster.posts[j].resp.status, poster.posts[j].pay>> :
                       j \in 22..24 }
        /\ { <<poster.detail[k].ep, poster.detail[k].pay>> : k \in 1..3 }
               = { <<"global", 6>>, <<"global", 7>>, <<"global", 8>> }

C3_Witness == All24Rejected /\ IsDigits(reg.tarefa_id)

\* C4: the POSTs of one record follow the fixed order: every payload variant
\* 1..8 on the task-scoped endpoint (there only with a numeric task id), then
\* on the project-scoped, then on the global endpoint; at most 24 POSTs (16
\* without a numeric task id); no (endpoint, payload) combination twice.
C4_FixedAttemptOrder ==
    LET posts == poster.posts
        numeric == IsDigits(reg.tarefa_id)
        scopes == IF Len(posts) > 0 /\ posts[1].ep = "task"
                  THEN <<"task", "project", "global">>
                  ELSE <<"project", "global">>
    IN  /\ Len(posts) <= NPayloads * Len(scopes)
        /\ \A i \in 1..Len(posts) :
              /\ posts[i].ep = scopes[((i - 1) \div NPayloads) + 1]
              /\ posts[i].pay = ((i - 1) % NPayloads) + 1
              /\ posts[i].ep = "task" => numeric
        /\ Len(posts) <= 24
        /\ ~numeric => Len(posts) <= 16
        /\ Cardinality({ <<posts[i].ep, posts[i].te>> : i \in 1..Len(posts) })
               = Len(posts)

C4_Witness ==
    /\ Len(poster.posts) = 24
    /\ poster.posts[1].ep = "task"
    /\ poster.posts[9].ep = "project"
    /\ poster.posts[24].ep = "global"

\* C8: every payload sent with the duration as integer hours and minutes
\* carries the total rounded to the nearest minute, or 0 h 1 min when that is
\* zero; it never carries a zero duration, also for an empty or malformed total.
C8_IntegerDurationRounded ==
    LET parses == HmsParses(reg.total_hrs)
        T == IF parses THEN HmsSeconds(reg.total_hrs) ELSE 0
    IN  \A i \in 1..Len(poster.posts) :
            LET te == poster.posts[i].te
                tm == te.hours * 60 + te.minutes
            IN  te.durEnc = "hm" =>
                  /\ te.hours >= 0 /\ te.minutes \in 0..59
                  /\ tm >= 1
                  /\ ~parses => (te.hours = 0 /\ te.minutes = 1)
                  /\ parses => \/ (60 * tm - T) \in (-30)..30
                               \/ (tm = 1 /\ T <= 30)

C8_Witness ==
    \E i, j, k \in 1..Len(poster.posts) :
        /\ poster.posts[i].te.durEnc = "hm"
        /\ reg.total_hrs = <<"0", "0", ":", "0", "0", ":", "2", "9">>
        /\ poster.posts[i].te.minutes = 1
        /\ poster.posts[j].te.durEnc = "decimal"
        /\ poster.posts[k].te.style = "camel" /\ poster.posts[k].te.durEnc = "hm"

(***************************************************************************)
(* Batch submission: processar_dados_viasell_tabular and the launch loop   *)
(* of lancar_fichas_viasell                                                *)
(***************************************************************************)
RECURSIVE RunLoop(_, _)
\* The attempt loop run to its end against a server that answers the n-th
\* POST of the call with script[n]
RunLoop(p, script) ==
    IF p.pc # "loop" THEN p
    ELSE RunLoop(PostStep(p, script[Len(p.posts) + 1]), script)

\* _post_time_entry_tw(registro, projeto_id) as one call
post_time_entry_tw(r, script) == RunLoop(PostPrepare(r), script)

\* Server behaviours during one call: answer b to every POST but the k-th,
\* answer a to the k-th
ScriptPoints == {1, 9, 24}

Scripts ==
    { [i \in 1..(3 * NPayloads) |-> IF i = k THEN a ELSE b] :
          k \in ScriptPoints, a \in Responses, b \in {Rejected, TimedOut} }

\* The entries of registros_selecionados, each with what tarefas_mapeadas
\* holds for its index (mapeada: a task was chosen for it)
Selecionado(data, mapeada) ==
    [ reg_data |-> Registro(normalizar_data(data),
                            <<"0", "4", ":", "0", "0", ":", "0", "0">>, <<>>),
      mapeada  |-> mapeada,
      tarefa_id |-> IF mapeada THEN <<"7", "7">> ELSE <<>> ]

Selecionaveis == { Selecionado(d, m) : d \in RawDatas, m \in BOOLEAN }

\* Records selected in one batch
MaxSel == 2

RECURSIVE SeqsUpTo(_, _)
\* The sequences over S of length at most n
SeqsUpTo(S, n) ==
    IF n = 0 THEN {<<>>}
    ELSE LET shorter == SeqsUpTo(S, n - 1)
         IN  shorter \cup { Append(q, x) : q \in shorter, x \in S }

OthersIdleForBatch ==
    /\ reg = Registro(<<>>, <<>>, <<>>) /\ poster = PosterIdle /\ faults = 0
    /\ linhas = <<>> /\ extr = IdleExtr
    /\ data_str = <<>> /\ norm = IdleNorm
    /\ tw = IdleTw /\ tarefas = <<>>
    /\ RestIdle

InitBatch ==
    /\ registros_selecionados \in SeqsUpTo(Selecionaveis, MaxSel)
    /\ which \in {"tabular", "lancar"}
    /\ batch = IdleBatch
    /\ OthersIdleForBatch

\* The RegistroAtividade built at lines 1168-1180 / 1708-1720
RegistroDe(item) == [item.reg_data EXCEPT !.tarefa_id = item.tarefa_id]

\* Lines 1182-1187 / 1722-1730: the outcome of one poster call is counted,
\* whatever it raised, and the loop goes on
BatchCountMut(b, res) ==
    IF res.pc = "returned"
    THEN [b EXCEPT !.sucesso_count = @ + 1, !.i = @ + 1]
    ELSE [b EXCEPT !.falha_count = @ + 1, !.pc = "done",
                   !.erros = Append(@, [registro |-> b.i, error |-> res.error])]

BatchCount(b, res) ==
    IF res.pc = "returned"
    THEN [b EXCEPT !.sucesso_count = @ + 1, !.i = @ + 1]
    ELSE [b EXCEPT !.falha_count = @ + 1, !.i = @ + 1,
                   !.erros = Append(@, [registro |-> b.i, error |-> res.error])]

BatchStart ==
    /\ batch.pc = "idle"
    /\ batch' = [batch EXCEPT !.pc = "loop"]
    /\ UNCHANGED <<registros_selecionados, which, posterVars, extrVars, dateVars, taskVars, restVars>>

\* One iteration of the for loop; invocations is the record of the poster
\* calls made (index of the record, whether the call returned)
BatchIter ==
    /\ batch.pc = "loop"
    /\ batch.i <= Len(registros_selecionados)
    /\ LET item == registros_selecionados[batch.i]
       IN  IF ~item.mapeada
           THEN batch' = [batch EXCEPT !.i = @ + 1]
           ELSE \E script \in Scripts :
                   LET res == post_time_entry_tw(RegistroDe(item), script)
                   IN  batch' = [BatchCount(batch, res) EXCEPT
                                   !.invocations = Append(batch.invocations,
                                       [i |-> batch.i, ok |-> res.pc = "returned"])]
    /\ UNCHANGED <<registros_selecionados, which, posterVars, extrVars, dateVars, taskVars, restVars>>

\* The loop is over: the counts are returned (tabular) or reported (lancar)
BatchFinish ==
    /\ batch.pc = "loop"
    /\ batch.i > Len(registros_selecionados)
    /\ batch' = [batch EXCEPT !.pc = "done"]
    /\ UNCHANGED <<registros_selecionados, which, posterVars, extrVars, dateVars, taskVars, restVars>>

NextBatch == BatchStart \/ BatchIter \/ BatchFinish

SpecBatch == InitBatch /\ [][NextBatch]_vars

\* The indexes among the first n selected records that have a mapped task
MappedUpTo(n) ==
    SelectSeq([k \in 1..n |-> k], LAMBDA k : registros_selecionados[k].mapeada)

\* C5: the poster is invoked exactly once for each selected record with a
\* mapped task, in selection order, a failure being counted without stopping
\* the loop; successes + failures = invocations, successes = the invocations
\* that returned.
C5_BatchOncePerRecord ==
    LET inv == batch.invocations
    IN  /\ batch.pc = "loop" =>
              [k \in 1..Len(inv) |-> inv[k].i] = MappedUpTo(batch.i - 1)
        /\ batch.pc = "done" =>
              [k \in 1..Len(inv) |-> inv[k].i] = MappedUpTo(Len(registros_selecionados))
        /\ batch.sucesso_count + batch.falha_count = Len(inv)
        /\ batch.sucesso_count = Cardinality({k \in 1..Len(inv) : inv[k].ok})
        /\ batch.falha_count = Len(batch.erros)

C5_Witness ==
    /\ batch.pc = "done"
    /\ Len(batch.invocations) = 2
    /\ ~batch.invocations[1].ok
    /\ batch.invocations[2].ok
    /\ batch.sucesso_count = 1 /\ batch.falha_count = 1

(***************************************************************************)
(* extrair_dados_viasell_corrigido: the three extraction strategies        *)
(*                                                                         *)
(* A line is the sequence of its whitespace-separated tokens. A token's    *)
(* kind says which pattern of the code its text matches in full:           *)
(*   "date"  \d{1,2}[/\-]\d{1,2}[/\-]\d{2,4}                               *)
(*   "exec"  \d+\s*-\s*[A-Za-z][^\d]*   (v is the text after the code)     *)
(*   "time"  \d{1,2}:\d{2}:\d{2}        "hm"  \d{1,2}:\d{2}                *)
(*   "sim", "nao"  the billable marker   "word"  other text without digits *)
(*   "num"   other text with digits                                        *)
(* A token's text v is a sequence of strings: the characters of a date or  *)
(* a time, the words of anything else.                                     *)
(***************************************************************************)
Tok(k, v) == [k |-> k, v |-> v]

NonDigitKinds == {"word", "sim", "nao"}

\* The last index of the run of digit-free tokens that starts at i (i - 1
\* when there is none): what [^\d]+ goes on to match after an executor
RunEnd(L, i) ==
    CHOOSE j \in (i - 1)..Len(L) :
        /\ \A m \in i..j : L[m].k \in NonDigitKinds
        /\ j = Len(L) \/ L[j + 1].k \notin NonDigitKinds

\* The executor text with the leading code removed: re.sub(r'^\d+\s*-\s*', '')
\* of the match that starts at the exec token at i
ExecutorLimpo(L, i) == [m \in 1..(RunEnd(L, i + 1) - i + 1) |-> L[i + m - 1].v]

ExecutorNaoIdentificado == <<"Executor não identificado">>

\* regex_registro (lines 435-443): the positions of a date token from which
\* date, executor, three times and Sim/Não follow in this order
PosA(L) ==
    { i \in 1..Len(L) :
        /\ L[i].k = "date"
        /\ i + 1 <= Len(L) /\ L[i + 1].k = "exec"
        /\ LET j == RunEnd(L, i + 2) + 1
           IN  /\ j + 3 <= Len(L)
               /\ L[j].k = "time" /\ L[j + 1].k = "time" /\ L[j + 2].k = "time"
               /\ L[j + 3].k \in {"sim", "nao"} }

Min(S) == CHOOSE x \in S : \A y \in S : x <= y

\* The positions of the tokens of kind k after position i, in order
After(L, i, k) == SelectSeq([m \in 1..Len(L) |-> m], LAMBDA m : m > i /\ L[m].k = k)

Kinds(L, k) == After(L, 0, k)

\* regex_flex (lines 483-485): a date token followed, anywhere, by three times
PosB(L) == { i \in 1..Len(L) : L[i].k = "date" /\ Len(After(L, i, "time")) >= 3 }

\* The test of lines 518-525
MatchC(L) ==
    /\ L # <<>>
    /\ Kinds(L, "date") # <<>>
    /\ Kinds(L, "time") # <<>> \/ Kinds(L, "hm") # <<>>
    /\ Len(Kinds(L, "time")) >= 2

Matches(S, L) ==
    IF S = "A" THEN PosA(L) # {}
    ELSE IF S = "B" THEN PosB(L) # {}
    ELSE MatchC(L)

\* 'sim' in linha.lower(): the marker, or any text that contains it
ContemSim(t) == t.k = "sim" \/ t.v = <<"assim">> \/ t.v = <<"Simone">>

Fmt2(n) == <<DigitChars[(n \div 10) + 1], DigitChars[(n % 10) + 1]>>

\* datetime.strptime(s, "%H:%M"): minutes since midnight, -1 when it raises
StrptimeHM(s) ==
    LET parts == Split(s, ":")
    IN  IF /\ Len(parts) = 2
           /\ IsDigits(parts[1]) /\ Len(parts[1]) <= 2 /\ IntOf(parts[1]) <= 23
           /\ IsDigits(parts[2]) /\ Len(parts[2]) <= 2 /\ IntOf(parts[2]) <= 59
        THEN IntOf(parts[1]) * 60 + IntOf(parts[2])
        ELSE -1

calcular_total_horas(hr_inicio, hr_fim) ==
    LET inicio == StrptimeHM(hr_inicio)
        fim == StrptimeHM(hr_fim)
    IN  IF inicio < 0 \/ fim < 0
        THEN <<"0", "0", ":", "0", "0", ":", "0", "0">>
        ELSE LET total_seg == (IF fim < inicio THEN fim + 1440 - inicio
                               ELSE fim - inicio) * 60
             IN  Fmt2(total_seg \div 3600) \o <<":">>
                   \o Fmt2((total_seg % 3600) \div 60) \o <<":">>
                   \o Fmt2(total_seg % 60)

RegistroExtraido(data, executor, hr_inicio, hr_fim, total_hrs, faturavel) ==
    [ data      |-> normalizar_data(data),
      executor  |-> executor,
      hr_inicio |-> hr_inicio,
      hr_fim    |-> hr_fim,
      total_hrs |-> total_hrs,
      faturavel |-> faturavel ]

\* Line 453 with every marker taken as billable
FaturavelMut(cobrar) == TRUE

\* Line 453: (cobrar or '').strip().lower() == 'sim'
Faturavel(cobrar) == cobrar.k = "sim"

\* Lines 451-473
RegistroA(L) ==
    LET i == Min(PosA(L))
        j == RunEnd(L, i + 2) + 1
    IN  RegistroExtraido(L[i].v, ExecutorLimpo(L, i + 1),
                         L[j].v, L[j + 1].v, L[j + 2].v, Faturavel(L[j + 3]))

\* Lines 491-512
RegistroB(L) ==
    LET i == Min(PosB(L))
        t == After(L, i, "time")
        ex == Kinds(L, "exec")
        cobrar == SelectSeq([m \in 1..Len(L) |-> m], LAMBDA m : L[m].k \in {"sim", "nao"})
    IN  RegistroExtraido(L[i].v,
                         IF ex # <<>> THEN ExecutorLimpo(L, ex[1])
                         ELSE ExecutorNaoIdentificado,
                         L[t[1]].v, L[t[2]].v, L[t[3]].v,
                         cobrar # <<>> /\ L[cobrar[1]].k = "sim")

\* Lines 526-552
RegistroC(L) ==
    LET datas == Kinds(L, "date")
        horarios == Kinds(L, "time")
        ex == Kinds(L, "exec")
        hr_inicio == L[horarios[1]].v
        hr_fim == L[horarios[2]].v
    IN  RegistroExtraido(L[datas[1]].v,
                         IF ex # <<>> THEN ExecutorLimpo(L, ex[1])
                         ELSE ExecutorNaoIdentificado,
                         hr_inicio, hr_fim,
                         IF Len(horarios) > 2 THEN L[horarios[3]].v
                         ELSE calcular_total_horas(Take(hr_inicio, 5), Take(hr_fim, 5)),
                         \E m \in 1..Len(L) : ContemSim(L[m]))

RegistroDaLinha(S, L) ==
    IF S = "A" THEN RegistroA(L)
    ELSE IF S = "B" THEN RegistroB(L)
    ELSE RegistroC(L)

\* registros.append(registro)
ColetaMut(registros, registro) ==
    IF \E k \in 1..Len(registros) : registros[k] = registro THEN registros
    ELSE Append(registros, registro)

Coleta(registros, registro) == Append(registros, registro)

RECURSIVE Passada(_, _, _, _)
\* One strategy's for loop over the lines, from line idx on. fonte records,
\* for each record appended, the strategy and the line it came from.
Passada(S, L, idx, e) ==
    IF idx > Len(L) THEN e
    ELSE Passada(S, L, idx + 1,
             IF Matches(S, L[idx])
             THEN [e EXCEPT !.registros = Coleta(e.registros, RegistroDaLinha(S, L[idx])),
                            !.fonte = Append(e.fonte, <<S, idx>>)]
             ELSE e)

\* "if not registros:" at lines 481 and 515
FallbackMut(registros) == TRUE

Fallback(registros) == registros = <<>>

\* Token texts
D_05_01_2024 == <<"0", "5", "/", "0", "1", "/", "2", "0", "2", "4">>
D_6_1_24     == <<"6", "-", "1", "-", "2", "4">>
D_31_02_2024 == <<"3", "1", "/", "0", "2", "/", "2", "0", "2", "4">>
T_08_00_00   == <<"0", "8", ":", "0", "0", ":", "0", "0">>
T_12_00_00   == <<"1", "2", ":", "0", "0", ":", "0", "0">>
T_04_00_00   == <<"0", "4", ":", "0", "0", ":", "0", "0">>
T_22_30_00   == <<"2", "2", ":", "3", "0", ":", "0", "0">>
T_8_00_00    == <<"8", ":", "0", "0", ":", "0", "0">>
T_4_00_00    == <<"4", ":", "0", "0", ":", "0", "0">>

\* The lines documents are made of
LinhaA1 == << Tok("date", D_05_01_2024), Tok("exec", <<"Maria Silva">>),
              Tok("time", T_08_00_00), Tok("time", T_12_00_00),
              Tok("time", T_04_00_00), Tok("sim", <<"Sim">>) >>

LinhaA2 == << Tok("word", <<"Obs">>), Tok("date", D_6_1_24), Tok("exec", <<"Simone">>),
              Tok("word", <<"Souza">>), Tok("time", T_22_30_00),
              Tok("time", T_08_00_00), Tok("time", T_04_00_00), Tok("nao", <<"Não">>) >>

\* Hours written with one digit
LinhaA3 == << Tok("date", D_05_01_2024), Tok("exec", <<"Maria Silva">>),
              Tok("time", T_8_00_00), Tok("time", T_12_00_00),
              Tok("time", T_4_00_00), Tok("nao", <<"Não">>) >>

\* Text with a digit between the executor and the times
LinhaA4 == << Tok("date", D_05_01_2024), Tok("exec", <<"Maria Silva">>),
              Tok("num", <<"(turno 2)">>), Tok("time", T_08_00_00),
              Tok("time", T_12_00_00), Tok("time", T_04_00_00),
              Tok("sim", <<"Sim">>) >>

\* A date token that names no day of the calendar
LinhaA5 == << Tok("date", D_31_02_2024), Tok("exec", <<"Maria Silva">>),
              Tok("time", T_08_00_00), Tok("time", T_12_00_00),
              Tok("time", T_04_00_00), Tok("sim", <<"Sim">>) >>

LinhaB1 == << Tok("date", D_05_01_2024), Tok("word", <<"de">>), Tok("time", T_08_00_00),
              Tok("word", <<"a">>), Tok("time", T_12_00_00),
              Tok("word", <<"total">>), Tok("time", T_04_00_00) >>

LinhaB2 == << Tok("exec", <<"Joao">>), Tok("date", D_6_1_24), Tok("time", T_08_00_00),
              Tok("time", T_12_00_00), Tok("time", T_04_00_00), Tok("sim", <<"Sim">>) >>

LinhaC1 == << Tok("date", D_05_01_2024), Tok("time", T_22_30_00),
              Tok("time", T_08_00_00) >>

LinhaC2 == << Tok("time", T_08_00_00), Tok("time", T_12_00_00),
              Tok("date", D_6_1_24), Tok("word", <<"assim">>) >>

\* Two times only, the first with a one-digit hour
LinhaC3 == << Tok("date", D_05_01_2024), Tok("time", T_8_00_00),
              Tok("time", T_12_00_00) >>

LinhaVazia == << >>

LinhaTexto == << Tok("word", <<"Cliente">>), Tok("num", <<"1234">>) >>

LinhaHM == << Tok("date", D_05_01_2024), Tok("hm", <<"0", "8", ":", "0", "0">>) >>

Linhas ==
    { LinhaA1, LinhaA2, LinhaA3, LinhaA4, LinhaA5, LinhaB1, LinhaB2,
      LinhaC1, LinhaC2, LinhaC3, LinhaVazia, LinhaTexto, LinhaHM }

\* Lines of a document (texto.split('\n') never yields an empty list)
MaxLinhas == 3

OthersIdleForExtr ==
    /\ reg = Registro(<<>>, <<>>, <<>>) /\ poster = PosterIdle /\ faults = 0
    /\ registros_selecionados = <<>> /\ which = "none" /\ batch = IdleBatch
    /\ data_str = <<>> /\ norm = IdleNorm
    /\ tw = IdleTw /\ tarefas = <<>>
    /\ RestIdle

InitExtr ==
    /\ linhas \in (SeqsUpTo(Linhas, MaxLinhas) \ {<<>>})
    /\ extr = [IdleExtr EXCEPT !.pc = "A"]
    /\ OthersIdleForExtr

\* One strategy over the whole document, and the decision that follows it
Estrategia(S, depois) ==
    /\ LET e == Passada(S, linhas, 1, extr)
       IN  extr' = [e EXCEPT !.ran = @ \cup {S},
                             !.pc = IF depois # "done" /\ Fallback(e.registros)
                                    THEN depois ELSE "done"]
    /\ UNCHANGED <<linhas, posterVars, batchVars, dateVars, taskVars, restVars>>

EstrategiaA == extr.pc = "A" /\ Estrategia("A", "B")

EstrategiaB == extr.pc = "B" /\ Estrategia("B", "C")

EstrategiaC == extr.pc = "C" /\ Estrategia("C", "done")

NextExtr == EstrategiaA \/ EstrategiaB \/ EstrategiaC

SpecExtr == InitExtr /\ [][NextExtr]_vars

AlgumaLinha(S) == \E n \in 1..Len(linhas) : Matches(S, linhas[n])

\* C6: the strategies are mutually exclusive per document: B runs only if A
\* produced no record over the whole document, C only if neither A nor B did;
\* all records returned come from one strategy, and a line only B or C would
\* match contributes nothing when some other line matched A.
C6_EstrategiasExclusivas ==
    /\ "B" \in extr.ran => ~AlgumaLinha("A")
    /\ "C" \in extr.ran => ~AlgumaLinha("A") /\ ~AlgumaLinha("B")
    /\ \A k, m \in 1..Len(extr.fonte) : extr.fonte[k][1] = extr.fonte[m][1]
    /\ (extr.pc = "done" /\ AlgumaLinha("A")) =>
          /\ extr.ran = {"A"}
          /\ \A n \in 1..Len(linhas) :
                ~Matches("A", linhas[n]) =>
                    \A k \in 1..Len(extr.fonte) : extr.fonte[k][2] # n

C6_Witness ==
    /\ extr.pc = "done"
    /\ Len(extr.registros) = 1
    /\ \E n, m \in 1..Len(linhas) :
          /\ Matches("A", linhas[n])
          /\ ~Matches("A", linhas[m]) /\ Matches("B", linhas[m])

\* The strategy whose records are returned
Ativa == IF AlgumaLinha("A") THEN "A" ELSE IF AlgumaLinha("B") THEN "B" ELSE "C"

Ancoras == SelectSeq([n \in 1..Len(linhas) |-> n], LAMBDA n : Matches(Ativa, linhas[n]))

\* C7: the list returned holds exactly one record per anchor line of the
\* active strategy, in the order of the lines, duplicates included.
C7_UmRegistroPorAncora ==
    extr.pc = "done" =>
        extr.registros = [k \in 1..Len(Ancoras) |->
                              RegistroDaLinha(Ativa, linhas[Ancoras[k]])]

C7_Witness ==
    /\ extr.pc = "done"
    /\ Len(extr.registros) = 3
    /\ extr.registros[1] = extr.registros[3]
    /\ extr.registros[1] # extr.registros[2]

(***************************************************************************)
(* normalizar_data applied to date strings, once and again                 *)
(***************************************************************************)
DateDigits == {"0", "7"}

Separadores == {"/", "-", "."}

\* The digit strings over DateDigits whose length is in lens
DigitStrings(lens) ==
    UNION { [1..n -> DateDigits] : n \in lens }

OthersIdleForDate ==
    /\ reg = Registro(<<>>, <<>>, <<>>) /\ poster = PosterIdle /\ faults = 0
    /\ registros_selecionados = <<>> /\ which = "none" /\ batch = IdleBatch
    /\ linhas = <<>> /\ extr = IdleExtr
    /\ tw = IdleTw /\ tarefas = <<>>
    /\ RestIdle

\* norm.partes keeps how the argument was put together: day, separator,
\* month, separator, year (a year of 2 to 4 digits, as the date patterns allow)
\* Strings that are not dates
Malformadas ==
    { <<>>,
      <<"a", "/", "b", "/", "c">>,
      <<"1", "/", "/", "2", "0", "2", "4">>,
      <<"1", "2", "/", "2", "0", "2", "4">>,
      <<"1", "/", "2", "/", "3", "/", "4">>,
      <<"h", "o", "j", "e">> }

\* partes of a string that was not put together from day, month and year
SemPartes == << <<>>, "", <<>>, "", <<>> >>

InitDate ==
    /\ \/ \E dia \in DigitStrings({1, 2}), mes \in DigitStrings({1, 2}),
             ano \in DigitStrings({2, 3, 4}), s1 \in Separadores, s2 \in Separadores :
             /\ data_str = dia \o <<s1>> \o mes \o <<s2>> \o ano
             /\ norm = [IdleNorm EXCEPT !.partes = <<dia, s1, mes, s2, ano>>]
       \/ /\ data_str \in Malformadas
          /\ norm = [IdleNorm EXCEPT !.partes = SemPartes]
    /\ OthersIdleForDate

Normalizar ==
    /\ norm.pc = "idle"
    /\ norm' = [norm EXCEPT !.pc = "once", !.first = normalizar_data(data_str)]
    /\ UNCHANGED <<data_str, posterVars, batchVars, extrVars, taskVars, restVars>>

NormalizarDeNovo ==
    /\ norm.pc = "once"
    /\ norm' = [norm EXCEPT !.pc = "twice", !.second = normalizar_data(norm.first)]
    /\ UNCHANGED <<data_str, posterVars, batchVars, extrVars, taskVars, restVars>>

NextDate == Normalizar \/ NormalizarDeNovo

SpecDate == InitDate /\ [][NextDate]_vars

Padded(x) == IF Len(x) = 1 THEN <<"0">> \o x ELSE x

\* C9: for a date of 1-2 digit day, 1-2 digit month and 2 or 4 digit year
\* separated by '/', '-' or '.', normalizar_data gives the zero-padded
\* dd/mm/yyyy string (a two-digit year prefixed by "20"), and applying it
\* again changes nothing.
C9_NormalizaEIdempotente ==
    LET dia == norm.partes[1]
        mes == norm.partes[3]
        ano == norm.partes[5]
    IN  Len(ano) \in {2, 4} =>
          /\ norm.pc \in {"once", "twice"} =>
                /\ norm.first = Padded(dia) \o <<"/">> \o Padded(mes) \o <<"/">>
                                  \o (IF Len(ano) = 2 THEN <<"2", "0">> \o ano ELSE ano)
                /\ Len(norm.first) = 10
                /\ \A i \in 1..10 :
                      IF i \in {3, 6} THEN norm.first[i] = "/"
                      ELSE IsDigit(norm.first[i])
          /\ norm.pc = "twice" => norm.second = norm.first

C9_Witness ==
    /\ norm.pc = "twice"
    /\ norm.partes = << <<"7">>, "-", <<"7">>, ".", <<"7", "0">> >>
    /\ norm.second = <<"0", "7", "/", "0", "7", "/", "2", "0", "7", "0">>

(***************************************************************************)
(* get_tasks_by_tag_and_project: collection, tag filter, dedup, sort       *)
(*                                                                         *)
(* The server's tasks are numbered 1..n; parent[i] is the task that i is   *)
(* nested under (0: top level) and tags[i] the names of i's own tags.      *)
(* items is the JSON the fetch returned: the top-level tasks, each with    *)
(* its subTasks nested in it.                                              *)
(***************************************************************************)
\* str.lower() on the letters used in tag and task names
LowerChar(c) ==
    IF c = "O" THEN "o" ELSE IF c = "K" THEN "k"
    ELSE IF c = "A" THEN "a" ELSE IF c = "B" THEN "b" ELSE c

Lower(s) == [i \in 1..Len(s) |-> LowerChar(s[i])]

RECURSIVE Concat(_)
\* The concatenation of a sequence of sequences
Concat(ss) == IF ss = <<>> THEN <<>> ELSE ss[1] \o Concat(Tail(ss))

IdOf(i) == <<DigitChars[i + 1]>>

TaskNames == << <<"b">>, <<"A">>, <<"a">>, <<"B">> >>

NameOf(i) == TaskNames[((i - 1) % Len(TaskNames)) + 1]

FilhosDe(i, n, parent) ==
    SelectSeq([c \in 1..n |-> c], LAMBDA c : parent[c] = i)

RECURSIVE ItemDe(_, _, _, _)
\* The JSON object of task i, its subTasks nested
ItemDe(i, n, parent, tags) ==
    [ id       |-> IdOf(i),
      content  |-> NameOf(i),
      tags     |-> tags[i],
      subTasks |-> LET f == FilhosDe(i, n, parent)
                   IN  [k \in 1..Len(f) |-> ItemDe(f[k], n, parent, tags)] ]

ItemsDe(n, parent, tags) ==
    LET f == FilhosDe(0, n, parent)
    IN  [k \in 1..Len(f) |-> ItemDe(f[k], n, parent, tags)]

RECURSIVE Herdar(_, _)
\* Lines 303-306: the parent's tags that the task lacks are appended
Herdar(tags, parent_tags) ==
    IF parent_tags = <<>> THEN tags
    ELSE Herdar(IF \E k \in 1..Len(tags) : tags[k] = parent_tags[1]
                THEN tags ELSE Append(tags, parent_tags[1]),
                Tail(parent_tags))

\* Line 315: the tags handed down to the subtasks are the task's tags after
\* inheritance
TagsParaSubtarefasMut(proprias, tags) == proprias

TagsParaSubtarefas(proprias, tags) == tags

RECURSIVE collect(_, _, _, _)
\* _collect: the entries it appends to out for item and everything under it
collect(item, parent_id, parent_tags, inherit_from_parent) ==
    LET tags == IF inherit_from_parent THEN Herdar(item.tags, parent_tags)
                ELSE item.tags
    IN  << [ id |-> item.id, name |-> item.content, tags |-> tags,
             parentId |-> parent_id ] >>
        \o Concat([k \in 1..Len(item.subTasks) |->
                      collect(item.subTasks[k], item.id,
                              TagsParaSubtarefas(item.tags, tags),
                              inherit_from_parent)])

\* Lines 328-333 without the seen test
DedupMut(flat, seen) == SelectSeq(flat, LAMBDA t : t.id # <<>>)

RECURSIVE Dedup(_, _)
\* Lines 328-333: the first entry of each non-empty id
Dedup(flat, seen) ==
    IF flat = <<>> THEN <<>>
    ELSE IF flat[1].id # <<>> /\ flat[1].id \notin seen
         THEN <<flat[1]>> \o Dedup(Tail(flat), seen \cup {flat[1].id})
         ELSE Dedup(Tail(flat), seen)

Alphabet == <<" ", "a", "b", "k", "n", "o">>

CharRank(c) == CHOOSE i \in 1..Len(Alphabet) : Alphabet[i] = c

RECURSIVE StrLess(_, _)
\* x < y for Python strings
StrLess(x, y) ==
    IF y = <<>> THEN FALSE
    ELSE IF x = <<>> THEN TRUE
    ELSE IF x[1] # y[1] THEN CharRank(x[1]) < CharRank(y[1])
    ELSE StrLess(Tail(x), Tail(y))

RECURSIVE InsertByName(_, _)
InsertByName(sorted, t) ==
    IF sorted = <<>> THEN <<t>>
    ELSE IF StrLess(Lower(t.name), Lower(sorted[1].name))
         THEN <<t>> \o sorted
         ELSE <<sorted[1]>> \o InsertByName(Tail(sorted), t)

RECURSIVE SortByName(_)
\* list.sort(key=lambda x: x["name"].lower()): stable
SortByName(ts) ==
    IF ts = <<>> THEN <<>>
    ELSE InsertByName(SortByName(SubSeq(ts, 1, Len(ts) - 1)), ts[Len(ts)])

\* Lines 318-320: the collected tasks, in collection order
Achatar(items, inherit_from_parent) ==
    Concat([k \in 1..Len(items) |->
               collect(items[k], <<>>, <<>>, inherit_from_parent)])

\* Lines 323-325: the tag filter
Filtrar(flat, tag_query) ==
    LET tag_q == Lower(Strip(tag_query))
    IN  IF tag_q # <<>>
        THEN SelectSeq(flat, LAMBDA t :
                 \E k \in 1..Len(t.tags) : tag_q = Lower(t.tags[k]))
        ELSE flat

\* Lines 318-337, from the items the fetch returned
get_tasks_by_tag_and_project(items, tag_query, inherit_from_parent) ==
    SortByName(Dedup(Filtrar(Achatar(items, inherit_from_parent), tag_query), {}))

\* Tasks on the server
MaxTasks == 3

TagLists == { <<>>, << <<"O", "k">> >>, << <<"n", "o">>, <<"n", "o", "k">> >> }

Queries ==
    { <<"o", "k">>, <<"O", "K">>, <<" ", "o", "k", " ">>, <<"n", "o">>, <<" ">>, <<>> }

OthersIdleForTasks ==
    /\ reg = Registro(<<>>, <<>>, <<>>) /\ poster = PosterIdle /\ faults = 0
    /\ registros_selecionados = <<>> /\ which = "none" /\ batch = IdleBatch
    /\ linhas = <<>> /\ extr = IdleExtr
    /\ data_str = <<>> /\ norm = IdleNorm
    /\ RestIdle

\* The name under which the second listing of a task arrives
OutroNome == <<"a", "b">>

\* Task n listed once more at the top level, without nesting, as happens
\* when the API returns parent and child separately
Repetida(n, tags) ==
    [ id |-> IdOf(n), content |-> OutroNome, tags |-> tags[n], subTasks |-> <<>> ]

ItemsComRepetida(n, parent, tags, dup) ==
    IF dup = "front" THEN <<Repetida(n, tags)>> \o ItemsDe(n, parent, tags)
    ELSE IF dup = "end" THEN ItemsDe(n, parent, tags) \o <<Repetida(n, tags)>>
    ELSE ItemsDe(n, parent, tags)

InitTasks ==
    /\ \E n \in 1..MaxTasks :
          \E parent \in { p \in [1..n -> 0..(n - 1)] : \A i \in 1..n : p[i] < i },
             tags \in [1..n -> TagLists], q \in Queries, inh \in BOOLEAN,
             dup \in {"none", "front", "end"} :
             tw = [ pc |-> "idle", n |-> n, parent |-> parent, tags |-> tags,
                    dup |-> dup,
                    items |-> ItemsComRepetida(n, parent, tags, dup),
                    tag_query |-> q, inherit_from_parent |-> inh ]
    /\ tarefas = <<>>
    /\ OthersIdleForTasks

BuscarTarefas ==
    /\ tw.pc = "idle"
    /\ tarefas' = get_tasks_by_tag_and_project(tw.items, tw.tag_query,
                                               tw.inherit_from_parent)
    /\ tw' = [tw EXCEPT !.pc = "done"]
    /\ UNCHANGED <<posterVars, batchVars, extrVars, dateVars, restVars>>

NextTasks == BuscarTarefas

SpecTasks == InitTasks /\ [][NextTasks]_vars

RECURSIVE Ancestrais(_)
\* The tasks that task i is nested under, at any depth
Ancestrais(i) ==
    IF tw.parent[i] = 0 THEN {}
    ELSE {tw.parent[i]} \cup Ancestrais(tw.parent[i])

TemTag(i, q) == \E k \in 1..Len(tw.tags[i]) : Lower(tw.tags[i][k]) = Lower(q)

Devolvida(i) == \E k \in 1..Len(tarefas) : tarefas[k].id = IdOf(i)

DeveDevolver(i, q) ==
    \/ TemTag(i, q)
    \/ tw.inherit_from_parent /\ \E a \in Ancestrais(i) : TemTag(a, q)

\* C10 as stated: with a non-empty tag query, a task is returned iff the
\* query equals, case-insensitively, one of its own tags or, with
\* inherit_from_parent, a tag of an ancestor it is nested under at any depth.
C10_TagIffAsStated ==
    (tw.pc = "done" /\ tw.tag_query # <<>>) =>
        \A i \in 1..tw.n : Devolvida(i) <=> DeveDevolver(i, tw.tag_query)

\* C10 amended: the same, for the query with its surrounding whitespace
\* removed, when what is left is not empty.
C10_TagIffTrimmed ==
    (tw.pc = "done" /\ Strip(tw.tag_query) # <<>>) =>
        \A i \in 1..tw.n : Devolvida(i) <=> DeveDevolver(i, Strip(tw.tag_query))

C10_Witness ==
    /\ tw.pc = "done"
    /\ tw.n = 3 /\ tw.parent = <<0, 1, 2>>
    /\ tw.tags = << << <<"O", "k">> >>, <<>>, <<>> >>
    /\ tw.tag_query = <<" ", "o", "k", " ">>
    /\ tw.inherit_from_parent
    /\ Len(tarefas) = 3

C10_WitnessSemHeranca ==
    /\ tw.pc = "done"
    /\ tw.n = 2 /\ tw.parent = <<0, 1>>
    /\ tw.tags = << << <<"O", "k">> >>, <<>> >>
    /\ tw.tag_query = <<"o", "k">>
    /\ ~tw.inherit_from_parent
    /\ Len(tarefas) = 1 /\ tarefas[1].id = IdOf(1)

Coletadas == Achatar(tw.items, tw.inherit_from_parent)

Filtradas == Filtrar(Coletadas, tw.tag_query)

Ocorrencias(seq, id) == { k \in 1..Len(seq) : seq[k].id = id }

SemIdRepetido ==
    \A j, k \in 1..Len(tarefas) : tarefas[j].id = tarefas[k].id => j = k

OrdenadaPorNome ==
    \A k \in 1..(Len(tarefas) - 1) :
        ~StrLess(Lower(tarefas[k + 1].name), Lower(tarefas[k].name))

\* Of every id that occurs several times in seq, exactly one entry is
\* returned, and it is the first of seq with that id
PrimeiraDeCadaId(seq) ==
    \A id \in { seq[k].id : k \in 1..Len(seq) } :
        Cardinality(Ocorrencias(seq, id)) > 1 =>
            /\ Cardinality(Ocorrencias(tarefas, id)) = 1
            /\ \A k \in Ocorrencias(tarefas, id) :
                   tarefas[k] = seq[Min(Ocorrencias(seq, id))]

\* C11 as stated: the returned list has no two entries with the same id, of
\* every id that occurs several times in the collected tasks exactly the
\* first entry in collection order is kept, name preserved, and the list is
\* sorted by name, case-insensitively.  Ids of which the tag filter leaves
\* no entry are left aside.
C11_DedupOverCollected ==
    tw.pc = "done" =>
        /\ SemIdRepetido
        /\ OrdenadaPorNome
        /\ \A id \in { tarefas[k].id : k \in 1..Len(tarefas) } :
               Cardinality(Ocorrencias(Coletadas, id)) > 1 =>
                   \A k \in Ocorrencias(tarefas, id) :
                       tarefas[k] = Coletadas[Min(Ocorrencias(Coletadas, id))]

\* C11 amended: the same, where the entries that count are the collected
\* tasks that pass the tag filter, in collection order.
C11_DedupOverFiltered ==
    tw.pc = "done" =>
        SemIdRepetido /\ OrdenadaPorNome /\ PrimeiraDeCadaId(Filtradas)

C11_Witness ==
    /\ tw.pc = "done"
    /\ tw.dup = "front"
    /\ Strip(tw.tag_query) # <<>>
    /\ Cardinality(Ocorrencias(Filtradas, IdOf(tw.n))) = 2
    /\ Len(tarefas) = 2
    /\ tarefas[1].name = OutroNome /\ tarefas[1].id = IdOf(tw.n)
    /\ Lower(tarefas[2].name) = <<"b">>

(***************************************************************************)
(* Paginated task fetches: _try_fetch inside get_tasks_by_tag_and_project  *)
(* with its second attempt, get_all_tasks_project, and                     *)
(* TeamworkClient.get_tasks_for_project.                                   *)
(*                                                                         *)
(* The server holds tasks 1..n and answers page p of size s with the       *)
(* tasks (p-1)*s+1 .. p*s that exist; any request may fail instead.  The   *)
(* page sizes 500 and 200 are scaled down.                                 *)
(***************************************************************************)
PageSizePref == 3

PageSizeSimple == 2

MaxItems == 5

MaxFetchFaults == 2

FetchFns == {"_try_fetch", "get_all_tasks_project", "get_tasks_for_project"}

ServerPage(n, page, page_size) ==
    LET first == (page - 1) * page_size
        count == IF n - first >= page_size THEN page_size
                 ELSE IF n > first THEN n - first ELSE 0
    IN  [k \in 1..count |-> first + k]

\* The page size each function asks for
PageSizeOf(fn, phase) ==
    IF fn = "_try_fetch" /\ phase = 1 THEN PageSizePref ELSE PageSizeSimple

\* The loops stop after a page with fewer items than the page size
PaginaCurtaMut(count, page_size) == count <= page_size

PaginaCurta(count, page_size) == count < page_size

\* A _try_fetch, get_all_tasks_project or get_tasks_for_project call
\* returns value; get_tasks_by_tag_and_project makes its second, simpler
\* _try_fetch when the first one returned nothing (lines 291-294)
FetchReturn(f, value, failed) ==
    IF f.fn = "_try_fetch" /\ f.phase = 1 /\ value = <<>>
    THEN [f EXCEPT !.pc = "request", !.phase = 2, !.page = 1,
                   !.page_size = PageSizeOf(f.fn, 2),
                   !.items_all = <<>>, !.pages = <<>>, !.failed = FALSE]
    ELSE [f EXCEPT !.pc = "done", !.result = value, !.failed = failed]

\* What each loop does with the items of a page it received
FetchReceive(f, items) ==
    LET g == [f EXCEPT !.pages = Append(@, [page |-> f.page, items |-> items])]
        all == f.items_all \o items
    IN  IF f.fn # "_try_fetch" /\ items = <<>>
        THEN FetchReturn(g, f.items_all, FALSE)
        ELSE IF PaginaCurta(Len(items), f.page_size)
             THEN FetchReturn([g EXCEPT !.items_all = all], all, FALSE)
             ELSE [g EXCEPT !.items_all = all, !.page = f.page + 1,
                            !.pc = "request"]

Logged(f, fallback, ok) ==
    [f EXCEPT !.reqs = Append(@, [phase |-> f.phase, page |-> f.page,
                                  fallback |-> fallback, ok |-> ok]),
              !.faults = IF ok THEN @ ELSE @ + 1]

\* What each function does when the request for a page fails
FetchPrimaryFailed(f) ==
    IF f.fn = "get_tasks_for_project" THEN [f EXCEPT !.pc = "raised", !.failed = TRUE]
    ELSE [f EXCEPT !.pc = "fallback"]

\* What each function does when the fallback request fails too
FetchFallbackFailed(f) ==
    IF f.fn = "_try_fetch" THEN FetchReturn(f, <<>>, TRUE)
    ELSE [f EXCEPT !.pc = "raised", !.failed = TRUE]

OthersIdleForFetch ==
    /\ reg = Registro(<<>>, <<>>, <<>>) /\ poster = PosterIdle /\ faults = 0
    /\ registros_selecionados = <<>> /\ which = "none" /\ batch = IdleBatch
    /\ linhas = <<>> /\ extr = IdleExtr
    /\ data_str = <<>> /\ norm = IdleNorm
    /\ tw = IdleTw /\ tarefas = <<>>
    /\ sug = IdleSug /\ fp = IdleFp
    /\ log = IdleLog /\ ficha = IdleFicha /\ dur = IdleDur
    /\ MoreIdle

InitFetch ==
    /\ \E fn \in FetchFns, n \in 0..MaxItems :
          fetch = [IdleFetch EXCEPT !.fn = fn, !.n = n,
                                    !.page_size = PageSizeOf(fn, 1)]
    /\ OthersIdleForFetch

FetchUnchanged ==
    UNCHANGED <<posterVars, batchVars, extrVars, dateVars, taskVars,
                sug, fp, log, ficha, dur, moreVars>>

FetchStart ==
    /\ fetch.pc = "idle"
    /\ fetch' = [fetch EXCEPT !.pc = "request"]
    /\ FetchUnchanged

FetchPageOk ==
    /\ fetch.pc = "request"
    /\ fetch' = FetchReceive(Logged(fetch, FALSE, TRUE),
                             ServerPage(fetch.n, fetch.page, fetch.page_size))
    /\ FetchUnchanged

FetchPageFails ==
    /\ fetch.pc = "request"
    /\ fetch.faults < MaxFetchFaults
    /\ fetch' = FetchPrimaryFailed(Logged(fetch, FALSE, FALSE))
    /\ FetchUnchanged

FetchFallbackOk ==
    /\ fetch.pc = "fallback"
    /\ fetch' = FetchReceive(Logged(fetch, TRUE, TRUE),
                             ServerPage(fetch.n, fetch.page, fetch.page_size))
    /\ FetchUnchanged

FetchFallbackFails ==
    /\ fetch.pc = "fallback"
    /\ fetch.faults < MaxFetchFaults
    /\ fetch' = FetchFallbackFailed(Logged(fetch, TRUE, FALSE))
    /\ FetchUnchanged

NextFetch ==
    \/ FetchStart
    \/ FetchPageOk
    \/ FetchPageFails
    \/ FetchFallbackOk
    \/ FetchFallbackFails

\* The loops run synchronously: a call that can take a step takes it
SpecFetch == InitFetch /\ [][NextFetch]_vars /\ WF_vars(NextFetch)

\* C12: a failure of any request of get_tasks_by_tag_and_project's fetch or
\* of get_all_tasks_project, fallback request included, never raises to the
\* caller, and a fetch that ended on a failed request returns the empty list.
C12_FetchFailureNeverRaises ==
    fetch.fn \in {"_try_fetch", "get_all_tasks_project"} =>
        /\ fetch.pc # "raised"
        /\ (fetch.pc = "done" /\ fetch.failed) => fetch.result = <<>>

PagesFull(upto) ==
    \A k \in 1..upto : Len(fetch.pages[k].items) = fetch.page_size

FetchPaginates ==
    /\ \A k \in 1..Len(fetch.pages) : fetch.pages[k].page = k
    /\ fetch.pc \in {"request", "fallback"} =>
          Len(fetch.pages) = fetch.page - 1 /\ PagesFull(Len(fetch.pages))
    /\ (fetch.pc = "done" /\ ~fetch.failed) =>
          /\ Len(fetch.pages) >= 1
          /\ PagesFull(Len(fetch.pages) - 1)
          /\ Len(fetch.pages[Len(fetch.pages)].items) < fetch.page_size
          /\ fetch.result =
                Concat([k \in 1..Len(fetch.pages) |-> fetch.pages[k].items])

\* C13: a paginated fetch requests pages 1, 2, 3, ... in order, goes on to
\* the next page exactly when the page it received is full, stops after the
\* first short page and returns the items of all pages received, in page
\* order; and it terminates, the server's tasks being finite.
C13_PaginatedFetch ==
    /\ []FetchPaginates
    /\ <>(fetch.pc \in {"done", "raised"})

C13_Witness ==
    /\ fetch.pc = "done" /\ ~fetch.failed
    /\ fetch.n = 4 /\ fetch.page_size = 2
    /\ Len(fetch.pages) = 3
    /\ fetch.pages[3].items = <<>>
    /\ fetch.result = <<1, 2, 3, 4>>

(***************************************************************************)
(* TeamworkClient.suggest_task_for_activity and _tokenize                  *)
(*                                                                         *)
(* Texts are sequences of characters over letters a, b, k, n, o (either    *)
(* case for A, B, K, O), digits, the space and the hyphen; none carries an *)
(* accent.  None is the empty sequence, a returned id <<id>>.              *)
(***************************************************************************)
AlnumLetters == {"a", "b", "k", "n", "o"}

\* re.sub(r"[^a-z0-9]+", " ", text) followed by text.split()
Words(text) ==
    LET spaced == [i \in 1..Len(text) |->
                      IF text[i] \in AlnumLetters \/ IsDigit(text[i])
                      THEN text[i] ELSE " "]
    IN  SelectSeq(Split(spaced, " "), LAMBDA w : w # <<>>)

\* _tokenize, as the set its callers make of it
tokenize(text) ==
    IF text = <<>> THEN {}
    ELSE LET w == Words(Lower(text))
         IN  { w[i] : i \in { j \in 1..Len(w) : Len(w[j]) > 2 } }

\* re.search(re.escape(sub), text, re.IGNORECASE)
SearchIgnoreCase(sub, text) ==
    \E i \in 1..(Len(text) - Len(sub) + 1) :
        SubSeq(Lower(text), i, i + Len(sub) - 1) = Lower(sub)

RECURSIVE Join(_, _)
\* sep.join(ss)
Join(ss, sep) ==
    IF ss = <<>> THEN <<>>
    ELSE IF Len(ss) = 1 THEN ss[1]
    ELSE ss[1] \o sep \o Join(Tail(ss), sep)

\* Lines 379-398: the score of one task
TaskScore(task, activity_text, phase, meta) ==
    LET all_tokens == tokenize(activity_text) \cup tokenize(phase)
                         \cup tokenize(meta.cliente)
        task_tokens == tokenize(task.content \o <<" ">> \o Join(task._tag_names, <<" ">>))
    IN  Cardinality(all_tokens \cap task_tokens)
        + (IF meta.ticket # <<>> /\ SearchIgnoreCase(meta.ticket, task.content)
           THEN 3 ELSE 0)
        + (IF meta.ficha # <<>> /\ SearchIgnoreCase(meta.ficha, task.content)
           THEN 2 ELSE 0)
        + (IF tokenize(phase) \cap task_tokens # {} THEN 1 ELSE 0)

\* Line 400 with >= for >
BeatsBestMut(score, best_score) == score >= best_score

\* Line 400
BeatsBest(score, best_score) == score > best_score

RECURSIVE SuggestLoop(_, _, _, _, _)
\* Lines 376-402: the loop over the tasks, score[k] the score of tasks[k]
SuggestLoop(tasks, score, best_task_id, best_score, k) ==
    IF k > Len(tasks) THEN [best_task_id |-> best_task_id, best_score |-> best_score]
    ELSE IF BeatsBest(score[k], best_score)
         THEN SuggestLoop(tasks, score, <<tasks[k].id>>, score[k], k + 1)
         ELSE SuggestLoop(tasks, score, best_task_id, best_score, k + 1)

suggest_task_for_activity(activity_text, phase, meta, tasks) ==
    LET score == [k \in 1..Len(tasks) |->
                     TaskScore(tasks[k], activity_text, phase, meta)]
        best == SuggestLoop(tasks, score, <<>>, 0, 1)
    IN  IF best.best_score > 0 THEN best.best_task_id ELSE <<>>

ActivityTexts == { <<"B", "o", "a", " ", "k", "a", "b">>, <<"o", "k">>, <<>> }

Phases == { <<"O", "A", "K">>, <<"a", "b", "-", "b", "o", "a">>, <<>> }

Clientes == { <<"B", "a", "k">>, <<>> }

Tickets == { <<"K", "4", "2">>, <<>> }

Fichas == { <<"B", "7">>, <<>> }

Candidates ==
    { [id |-> 1, content |-> <<"b", "o", "a", " ", "k", "4", "2">>, _tag_names |-> <<>>],
      [id |-> 2, content |-> <<"O", "a", "k", "-", "b", "7">>, _tag_names |-> <<<<"k", "a", "b">>>>],
      [id |-> 3, content |-> <<"a", "b", " ", "o", "k">>, _tag_names |-> <<<<"B", "A", "K">>>>],
      [id |-> 4, content |-> <<"k", "a", "b", " ", "b", "o", "a">>, _tag_names |-> <<>>] }

MaxCands == 2

OthersIdleForSug ==
    /\ reg = Registro(<<>>, <<>>, <<>>) /\ poster = PosterIdle /\ faults = 0
    /\ registros_selecionados = <<>> /\ which = "none" /\ batch = IdleBatch
    /\ linhas = <<>> /\ extr = IdleExtr
    /\ data_str = <<>> /\ norm = IdleNorm
    /\ tw = IdleTw /\ tarefas = <<>>
    /\ fetch = IdleFetch /\ fp = IdleFp
    /\ log = IdleLog /\ ficha = IdleFicha /\ dur = IdleDur
    /\ MoreIdle

InitSug ==
    /\ \E a \in ActivityTexts, ph \in Phases, c \in Clientes, t \in Tickets,
          f \in Fichas, ts \in SeqsUpTo(Candidates, MaxCands) :
          sug = [IdleSug EXCEPT !.activity_text = a, !.phase = ph,
                                !.meta = [ticket |-> t, ficha |-> f, cliente |-> c],
                                !.tasks = ts]
    /\ OthersIdleForSug

Suggest ==
    /\ sug.pc = "idle"
    /\ sug' = [sug EXCEPT !.pc = "done",
                          !.result = suggest_task_for_activity(
                              sug.activity_text, sug.phase, sug.meta, sug.tasks)]
    /\ UNCHANGED <<posterVars, batchVars, extrVars, dateVars, taskVars,
                   fetch, fp, log, ficha, dur, moreVars>>

NextSug == Suggest

SpecSug == InitSug /\ [][NextSug]_vars

\* The score the claim describes, for task k of the candidate list
ClaimedScore(k) ==
    LET t == sug.tasks[k]
        task_tokens == tokenize(t.content \o <<" ">> \o Join(t._tag_names, <<" ">>))
        shared == task_tokens \cap (tokenize(sug.activity_text)
                     \cup tokenize(sug.phase) \cup tokenize(sug.meta.cliente))
    IN  Cardinality(shared)
        + (IF \E x \in tokenize(sug.phase) : x \in task_tokens THEN 1 ELSE 0)
        + (IF sug.meta.ticket # <<>> /\ SearchIgnoreCase(sug.meta.ticket, t.content)
           THEN 3 ELSE 0)
        + (IF sug.meta.ficha # <<>> /\ SearchIgnoreCase(sug.meta.ficha, t.content)
           THEN 2 ELSE 0)

\* C14: the suggestion is the id of the earliest task of the candidate list
\* whose score (shared tokens, +1 phase token, +3 ticket in name, +2 ficha in
\* name) is the highest, when that score is positive, and none when every
\* score is 0 or the list is empty.
C14_SuggestHighestScore ==
    sug.pc = "done" =>
        LET n == Len(sug.tasks)
            sc == [k \in 1..n |-> ClaimedScore(k)]
        IN  IF \A k \in 1..n : sc[k] = 0
            THEN sug.result = <<>>
            ELSE \E k \in 1..n :
                    /\ sug.result = <<sug.tasks[k].id>>
                    /\ \A j \in 1..n : sc[j] <= sc[k]
                    /\ \A j \in 1..(k - 1) : sc[j] < sc[k]

C14_Witness ==
    /\ sug.pc = "done"
    /\ Len(sug.tasks) = 2
    /\ sug.tasks[1].id # sug.tasks[2].id
    /\ ClaimedScore(1) = ClaimedScore(2) /\ ClaimedScore(1) > 0
    /\ sug.result = <<sug.tasks[1].id>>

C14_WitnessBonus ==
    /\ sug.pc = "done"
    /\ Len(sug.tasks) = 2
    /\ sug.tasks[1].id = 4 /\ sug.tasks[2].id = 2
    /\ sug.activity_text = <<"B", "o", "a", " ", "k", "a", "b">> /\ sug.phase = <<"O", "A", "K">>
    /\ sug.meta.ficha = <<"B", "7">>
    /\ ClaimedScore(1) = 2 /\ ClaimedScore(2) = 5
    /\ sug.result = <<2>>

(***************************************************************************)
(* TeamworkClient.create_fingerprint                                       *)
(*                                                                         *)
(* An input is a MetaFicha, a SessaoTrabalho and a task id, flattened into *)
(* one record.  The truncated SHA-256 is taken as injective: the digest of *)
(* a string is the string, tagged.                                         *)
(***************************************************************************)
RECURSIVE Str(_)
\* str(n) for a natural number
Str(n) == IF n < 10 THEN <<DigitChars[n + 1]>>
          ELSE Str(n \div 10) \o <<DigitChars[(n % 10) + 1]>>

Sha256Hex16(base) == <<"sha256[:16]", base>>

\* Line 471: the six components joined by "|"
FingerprintBase(x) ==
    x.ficha \o <<"|">> \o x.ticket \o <<"|">> \o x.data \o <<"|">>
        \o x.hora_inicio \o <<"|">> \o x.hora_fim \o <<"|">> \o Str(x.task_id)

create_fingerprint(x) == Sha256Hex16(FingerprintBase(x))

FingerprintInputs ==
    [ ficha       : { <<"1">>, <<"1", "|", "2">> },
      ticket      : { <<"3">>, <<"2", "|", "3">> },
      data        : { <<"2", "0", "2", "4", "-", "0", "1", "-", "0", "5">>, <<"2", "0", "2", "4", "-", "0", "1", "-", "0", "6">> },
      hora_inicio : { <<"0", "8", ":", "0", "0", ":", "0", "0">>, <<"0", "9", ":", "0", "0", ":", "0", "0">> },
      hora_fim    : { <<"1", "2", ":", "0", "0", ":", "0", "0">>, <<"1", "3", ":", "0", "0", ":", "0", "0">> },
      task_id     : { 7, 12 },
      atividade   : { <<"x">>, <<"y">> } ]

OthersIdleForFp ==
    /\ reg = Registro(<<>>, <<>>, <<>>) /\ poster = PosterIdle /\ faults = 0
    /\ registros_selecionados = <<>> /\ which = "none" /\ batch = IdleBatch
    /\ linhas = <<>> /\ extr = IdleExtr
    /\ data_str = <<>> /\ norm = IdleNorm
    /\ tw = IdleTw /\ tarefas = <<>>
    /\ fetch = IdleFetch /\ sug = IdleSug
    /\ log = IdleLog /\ ficha = IdleFicha /\ dur = IdleDur
    /\ MoreIdle

InitFp ==
    /\ \E a \in FingerprintInputs, b \in FingerprintInputs :
          fp = [IdleFp EXCEPT !.a = a, !.b = b]
    /\ OthersIdleForFp

Fingerprint ==
    /\ fp.pc = "idle"
    /\ fp' = [fp EXCEPT !.pc = "done", !.fa = create_fingerprint(fp.a),
                        !.fb = create_fingerprint(fp.b)]
    /\ UNCHANGED <<posterVars, batchVars, extrVars, dateVars, taskVars,
                   fetch, sug, log, ficha, dur, moreVars>>

NextFp == Fingerprint

SpecFp == InitFp /\ [][NextFp]_vars

SixEqual(x, y) ==
    /\ x.ficha = y.ficha /\ x.ticket = y.ticket /\ x.data = y.data
    /\ x.hora_inicio = y.hora_inicio /\ x.hora_fim = y.hora_fim
    /\ x.task_id = y.task_id

\* C15: two inputs get the same fingerprint if and only if their six
\* components (sheet id, ticket id, date, start time, end time, task id) are
\* all equal; the description plays no part.
C15_FingerprintIffSixEqual ==
    fp.pc = "done" => (fp.fa = fp.fb <=> SixEqual(fp.a, fp.b))

(***************************************************************************)
(* The batch log: _append_log, _read_logs, salvar_log_viasell              *)
(*                                                                         *)
(* The file's text is a sequence of JSON tokens: an object with the        *)
(* success and failure counts of one batch, "[", "]", ",", and the newline.*)
(***************************************************************************)
JTok(k, sucessos, falhas) == [k |-> k, sucessos |-> sucessos, falhas |-> falhas]

Obj(sucessos, falhas) == JTok("obj", sucessos, falhas)

NL == JTok("nl", 0, 0)

LBr == JTok("[", 0, 0)

RBr == JTok("]", 0, 0)

Comma == JTok(",", 0, 0)

\* What json.loads makes of an object token: the entry
EntryOf(tok) == [sucessos |-> tok.sucessos, falhas |-> tok.falhas]

RECURSIVE StripNL(_)
\* str.strip() on the token text
StripNL(t) ==
    IF t = <<>> THEN t
    ELSE IF t[1] = NL THEN StripNL(Tail(t))
    ELSE IF t[Len(t)] = NL THEN StripNL(SubSeq(t, 1, Len(t) - 1))
    ELSE t

RECURSIVE SplitLines(_)
\* str.splitlines() on the token text
SplitLines(t) ==
    IF t = <<>> THEN <<>>
    ELSE IF \A i \in 1..Len(t) : t[i] # NL THEN <<t>>
    ELSE LET k == CHOOSE i \in 1..Len(t) :
                      t[i] = NL /\ \A j \in 1..(i - 1) : t[j] # NL
         IN  <<SubSeq(t, 1, k - 1)>> \o SplitLines(SubSeq(t, k + 1, Len(t)))

\* json.loads accepts the text as one array of objects
IsJsonArray(t) ==
    LET u == SelectSeq(t, LAMBDA x : x # NL)
        inner == SubSeq(u, 2, Len(u) - 1)
    IN  /\ Len(u) >= 2 /\ u[1] = LBr /\ u[Len(u)] = RBr
        /\ \/ inner = <<>>
           \/ /\ Len(inner) % 2 = 1
              /\ \A i \in 1..Len(inner) :
                    IF i % 2 = 1 THEN inner[i].k = "obj" ELSE inner[i] = Comma

ArrayEntries(t) ==
    LET objs == SelectSeq(t, LAMBDA x : x.k = "obj")
    IN  [i \in 1..Len(objs) |-> EntryOf(objs[i])]

\* json.loads accepts the text as one object
IsJsonObject(t) == Len(StripNL(t)) = 1 /\ StripNL(t)[1].k = "obj"

\* Lines 61-70: the line-by-line reading, broken lines ignored
ReadLines(lines) ==
    LET good == SelectSeq(lines, LAMBDA ln :
                    StripNL(ln) # <<>> /\ (IsJsonObject(ln) \/ IsJsonArray(ln)))
    IN  [i \in 1..Len(good) |->
            IF IsJsonObject(good[i]) THEN EntryOf(StripNL(good[i])[1])
            ELSE [sucessos |-> 0, falhas |-> 0]]

\* _read_logs
read_logs(exists, text) ==
    IF ~exists THEN <<>>
    ELSE LET content == StripNL(text)
         IN  IF content = <<>> THEN <<>>
             ELSE IF content[1] = LBr
                  THEN IF IsJsonArray(content) THEN ArrayEntries(content)
                       ELSE <<>>
                  ELSE ReadLines(SplitLines(content))

\* _append_log: the entry's JSON and a newline, at the end of the file
append_log(text, entry) == text \o <<Obj(entry.sucessos, entry.falhas), NL>>

Contagens ==
    { [sucessos |-> 1, falhas |-> 0], [sucessos |-> 0, falhas |-> 2],
      [sucessos |-> 3, falhas |-> 3] }

E1 == Obj(2, 1)

E2 == Obj(0, 0)

\* Files _read_logs accepts: absent, empty, entries one per line (with or
\* without the last newline), and a single array, on one line or indented
LogFiles ==
    { [exists |-> FALSE, content |-> <<>>],
      [exists |-> TRUE, content |-> <<>>],
      [exists |-> TRUE, content |-> <<E1, NL>>],
      [exists |-> TRUE, content |-> <<E1, NL, E2, NL>>],
      [exists |-> TRUE, content |-> <<E1, NL, E2>>],
      [exists |-> TRUE, content |-> <<LBr, RBr>>],
      [exists |-> TRUE, content |-> <<LBr, E1, Comma, E2, RBr>>],
      [exists |-> TRUE, content |-> <<LBr, NL, E1, Comma, NL, E2, NL, RBr>>] }

MaxWrites == 2

OthersIdleForLog ==
    /\ reg = Registro(<<>>, <<>>, <<>>) /\ poster = PosterIdle /\ faults = 0
    /\ registros_selecionados = <<>> /\ which = "none" /\ batch = IdleBatch
    /\ linhas = <<>> /\ extr = IdleExtr
    /\ data_str = <<>> /\ norm = IdleNorm
    /\ tw = IdleTw /\ tarefas = <<>>
    /\ fetch = IdleFetch /\ sug = IdleSug /\ fp = IdleFp
    /\ ficha = IdleFicha /\ dur = IdleDur
    /\ MoreIdle

InitLog ==
    /\ \E f \in LogFiles :
          log = [IdleLog EXCEPT !.pc = "writing", !.exists = f.exists,
                                !.content = f.content,
                                !.antes = read_logs(f.exists, f.content)]
    /\ OthersIdleForLog

LogUnchanged ==
    UNCHANGED <<posterVars, batchVars, extrVars, dateVars, taskVars,
                fetch, sug, fp, ficha, dur, moreVars>>

\* salvar_log_viasell(dados_ficha, sucessos, falhas, ...)
SalvarLog ==
    /\ log.pc = "writing"
    /\ Len(log.written) < MaxWrites
    /\ \E c \in Contagens :
          log' = [log EXCEPT !.exists = TRUE,
                             !.content = append_log(log.content, c),
                             !.written = Append(@, c)]
    /\ LogUnchanged

LerLogs ==
    /\ log.pc = "writing"
    /\ log' = [log EXCEPT !.pc = "read",
                          !.lidos = read_logs(log.exists, log.content)]
    /\ LogUnchanged

NextLog == SalvarLog \/ LerLogs

SpecLog == InitLog /\ [][NextLog]_vars

\* C16: whatever accepted state the log file started in, after any sequence
\* of written batch summaries _read_logs returns the entries that were
\* readable before, followed by the written ones in write order, with the
\* success and failure counts that were written.
C16_LogRoundTrip ==
    log.pc = "read" => log.lidos = log.antes \o log.written

(***************************************************************************)
(* FichaManager: criar_ficha, adicionar_registro, concluir_ficha           *)
(*                                                                         *)
(* fichas is the manager's dictionary, in creation order; fichas_file what *)
(* salvar_fichas last wrote; pdf[i] what gerar_pdf_ficha last returned for *)
(* sheet i: "none" before any call, "pdf" for a document, "erro" for the   *)
(* error text it returns when the generation fails. now is the clock, in   *)
(* seconds (seg) and half seconds (meio); criadas and nregs count the      *)
(* calls of criar_ficha and the records added.                             *)
(***************************************************************************)
MaxFichas == 2

MaxClock == 1

MaxRegistros == 3

OthersIdleForFicha ==
    /\ reg = Registro(<<>>, <<>>, <<>>) /\ poster = PosterIdle /\ faults = 0
    /\ registros_selecionados = <<>> /\ which = "none" /\ batch = IdleBatch
    /\ linhas = <<>> /\ extr = IdleExtr
    /\ data_str = <<>> /\ norm = IdleNorm
    /\ tw = IdleTw /\ tarefas = <<>>
    /\ fetch = IdleFetch /\ sug = IdleSug /\ fp = IdleFp
    /\ log = IdleLog /\ dur = IdleDur
    /\ MoreIdle

InitFicha ==
    /\ ficha = IdleFicha
    /\ OthersIdleForFicha

FichaUnchanged ==
    UNCHANGED <<posterVars, batchVars, extrVars, dateVars, taskVars,
                fetch, sug, fp, log, dur, moreVars>>

\* salvar_fichas: the whole dictionary is written
salvar_fichas(f) == [f EXCEPT !.fichas_file = f.fichas]

\* f"FICHA-{datetime.now().strftime('%Y%m%d%H%M%S')}": the time to the second
FichaId(now) == <<"FICHA-", now.seg>>

\* self.fichas[ficha_id] = ficha: a new key is added last, an existing key
\* keeps its place and gets the new value
DictSet(d, ficha_id, value) ==
    IF \E i \in 1..Len(d) : d[i].id = ficha_id
    THEN [i \in 1..Len(d) |-> IF d[i].id = ficha_id THEN value ELSE d[i]]
    ELSE Append(d, value)

criar_ficha ==
    /\ ficha.criadas < MaxFichas
    /\ LET ficha_id == FichaId(ficha.now)
           nova == [id |-> ficha_id, registros |-> <<>>, status |-> "Em Andamento"]
           fichas == DictSet(ficha.fichas, ficha_id, nova)
       IN  ficha' = salvar_fichas(
                      [ficha EXCEPT
                         !.fichas = fichas,
                         !.pdf = [i \in 1..Len(fichas) |->
                                     IF fichas[i].id = ficha_id THEN "none"
                                     ELSE ficha.pdf[i]],
                         !.criadas = @ + 1])
    /\ FichaUnchanged

\* Half a second passes
Tick ==
    /\ ficha.now.seg < MaxClock
    /\ ficha' = [ficha EXCEPT !.now = IF @.meio = 0 THEN [@ EXCEPT !.meio = 1]
                                      ELSE [seg |-> @.seg + 1, meio |-> 0]]
    /\ FichaUnchanged

adicionar_registro ==
    /\ \E i \in 1..Len(ficha.fichas) :
          /\ Len(ficha.fichas[i].registros) < MaxRegistros
          /\ ficha' = salvar_fichas(
                         [ficha EXCEPT !.fichas[i].registros = Append(@, "registro"),
                                       !.nregs = @ + 1])
    /\ FichaUnchanged

\* concluir_ficha when gerar_pdf_ficha builds the document
concluir_ficha ==
    /\ \E i \in 1..Len(ficha.fichas) :
          ficha' = [salvar_fichas([ficha EXCEPT !.fichas[i].status = "Concluída"])
                       EXCEPT !.pdf[i] = "pdf"]
    /\ FichaUnchanged

\* concluir_ficha when the generation fails: gerar_pdf_ficha catches the
\* exception and returns the error text
concluir_ficha_pdf_falha ==
    /\ \E i \in 1..Len(ficha.fichas) :
          ficha' = [salvar_fichas([ficha EXCEPT !.fichas[i].status = "Concluída"])
                       EXCEPT !.pdf[i] = "erro"]
    /\ FichaUnchanged

NextFicha ==
    \/ Tick
    \/ criar_ficha
    \/ adicionar_registro
    \/ concluir_ficha
    \/ concluir_ficha_pdf_falha

SpecFicha == InitFicha /\ [][NextFicha]_vars

\* C17: a sheet's status is 'Em Andamento' or 'Concluída', and no sheet is
\* held or persisted as 'Concluída' unless its summary PDF has been
\* generated, also when the PDF generation fails.
C17_CompletedOnlyWithSummary ==
    /\ \A i \in 1..Len(ficha.fichas) :
          /\ ficha.fichas[i].status \in {"Em Andamento", "Concluída"}
          /\ ficha.fichas[i].status = "Concluída" => ficha.pdf[i] = "pdf"
    /\ \A i \in 1..Len(ficha.fichas_file) :
          /\ ficha.fichas_file[i].status \in {"Em Andamento", "Concluída"}
          /\ ficha.fichas_file[i].status = "Concluída" => ficha.pdf[i] = "pdf"

(***************************************************************************)
(* The duration conversions side by side: _hms_to_h_m, _hms_to_decimal,    *)
(* PDFGenerator._hms_to_minutes and PDFGenerator._hms_to_decimal           *)
(*                                                                         *)
(* A decimal number of hours is held exactly: the two-decimal string of    *)
(* _hms_to_decimal as hundredths of an hour, the float of                  *)
(* PDFGenerator._hms_to_decimal as seconds (3600ths of an hour).  Where a  *)
(* value lies exactly half way between two neighbours the binary floating  *)
(* point sum decides the rounding; tie_up and tie_up_pdf are the sides it   *)
(* takes for the two-decimal string and for 60 times the float.            *)
(***************************************************************************)
\* Rounding of x/d to an integer, a tie going where the float value falls
RoundTie(x, d, tie_up) ==
    LET q == x \div d
        r == x % d
    IN  IF 2 * r < d THEN q
        ELSE IF 2 * r > d THEN q + 1
        ELSE IF tie_up THEN q + 1 ELSE q

\* _hms_to_decimal: f"{h + m/60.0 + s/3600.0:.2f}", in hundredths
hms_to_decimal_str(hms, tie_up) ==
    IF ~HmsParses(hms) THEN 0 ELSE RoundTie(HmsSeconds(hms), 36, tie_up)

\* The parts PDFGenerator's conversions unpack: h, m and s, s = 0 when the
\* string has two parts; <<>> when they return 0
PdfParts(hms) ==
    LET parts == Split(hms, ":")
    IN  IF hms = <<>> THEN <<>>
        ELSE IF Len(parts) = 2 THEN <<IntOf(parts[1]), IntOf(parts[2]), 0>>
        ELSE IF Len(parts) = 3
             THEN <<IntOf(parts[1]), IntOf(parts[2]), IntOf(parts[3])>>
             ELSE <<>>

PdfSeconds(hms) ==
    LET p == PdfParts(hms)
    IN  IF p = <<>> THEN 0 ELSE p[1] * 3600 + p[2] * 60 + p[3]

\* PDFGenerator._hms_to_minutes with truncation for rounding
pdf_hms_to_minutesMut(hms) == PdfSeconds(hms) \div 60

\* PDFGenerator._hms_to_minutes: int(round(total_seconds/60.0))
pdf_hms_to_minutes(hms) == RoundHalfEven(PdfSeconds(hms), 60)

\* PDFGenerator._hms_to_decimal: h + m/60.0 + s/3600.0, in 3600ths
pdf_hms_to_decimal(hms) == PdfSeconds(hms)

MaxHours == 2

OthersIdleForDur ==
    /\ reg = Registro(<<>>, <<>>, <<>>) /\ poster = PosterIdle /\ faults = 0
    /\ registros_selecionados = <<>> /\ which = "none" /\ batch = IdleBatch
    /\ linhas = <<>> /\ extr = IdleExtr
    /\ data_str = <<>> /\ norm = IdleNorm
    /\ tw = IdleTw /\ tarefas = <<>>
    /\ fetch = IdleFetch /\ sug = IdleSug /\ fp = IdleFp
    /\ log = IdleLog /\ ficha = IdleFicha
    /\ MoreIdle

InitDur ==
    /\ \E h \in 0..MaxHours, m \in 0..59, sec \in 0..59 :
          dur = [IdleDur EXCEPT !.hms = Str(h) \o <<":">> \o Fmt2(m)
                                           \o <<":">> \o Fmt2(sec)]
    /\ OthersIdleForDur

Converter ==
    /\ dur.pc = "idle"
    /\ \E tie_up \in BOOLEAN, tie_up_pdf \in BOOLEAN :
          dur' = [dur EXCEPT !.pc = "done",
                             !.tie_up = tie_up,
                             !.tie_up_pdf = tie_up_pdf,
                             !.h_m = hms_to_h_m(dur.hms),
                             !.decimal = hms_to_decimal_str(dur.hms, tie_up),
                             !.pdf_minutes = pdf_hms_to_minutes(dur.hms),
                             !.pdf_decimal = pdf_hms_to_decimal(dur.hms)]
    /\ UNCHANGED <<posterVars, batchVars, extrVars, dateVars, taskVars,
                   fetch, sug, fp, log, ficha, moreVars>>

NextDur == Converter

SpecDur == InitDur /\ [][NextDur]_vars

\* hours*60 + minutes of _hms_to_h_m's result
TotalMinutes == dur.h_m[1] * 60 + dur.h_m[2]

\* round(60 * decimal hours) for the two-decimal string: no ties occur
MinutesOfDecimalStr == RoundHalfEven(60 * dur.decimal, 100)

\* round(60 * decimal hours) for PDFGenerator's float
MinutesOfDecimalPdf == RoundTie(dur.pdf_decimal, 60, dur.tie_up_pdf)

Dist(a, b) == IF a >= b THEN a - b ELSE b - a

SecondsField == IntOf(HmsParts(dur.hms)[3])

\* C18 as stated: for every H:MM:SS string the total minutes of _hms_to_h_m
\* and of PDFGenerator._hms_to_minutes agree with round(60 * decimal hours)
\* for the decimal hours of _hms_to_decimal and PDFGenerator._hms_to_decimal.
C18_MinutesAgreeWithDecimal ==
    dur.pc = "done" =>
        /\ TotalMinutes = dur.pdf_minutes
        /\ TotalMinutes = MinutesOfDecimalStr
        /\ TotalMinutes = MinutesOfDecimalPdf

\* C18 amended: the two minute totals are equal; round(60 * decimal hours)
\* is within one minute of them for both decimal derivations, and equal to
\* them when the seconds field is at most 17 or at least 43.
C18_MinutesWithinOneOfDecimal ==
    dur.pc = "done" =>
        /\ TotalMinutes = dur.pdf_minutes
        /\ Dist(TotalMinutes, MinutesOfDecimalStr) <= 1
        /\ Dist(TotalMinutes, MinutesOfDecimalPdf) <= 1
        /\ (SecondsField <= 17 \/ SecondsField >= 43) =>
              /\ TotalMinutes = MinutesOfDecimalStr
              /\ TotalMinutes = MinutesOfDecimalPdf

C18_Witness ==
    /\ dur.pc = "done"
    /\ dur.hms = <<"1", ":", "0", "2", ":", "2", "0">>
    /\ dur.h_m = <<1, 2>> /\ dur.pdf_minutes = 62
    /\ dur.decimal = 104
    /\ MinutesOfDecimalStr = 62
    /\ MinutesOfDecimalPdf = 62

C18_WitnessOneApart ==
    /\ dur.pc = "done"
    /\ dur.hms = <<"0", ":", "0", "0", ":", "2", "0">>
    /\ TotalMinutes = 0 /\ dur.pdf_minutes = 0
    /\ dur.decimal = 1
    /\ MinutesOfDecimalStr = 1

(***************************************************************************)
(* Strategy A's record for a line, and the form of the extracted times     *)
(***************************************************************************)
\* The line holds, in this order, a date, an executor with its code, three
\* times and a marker, whatever lies between them
ContemEmOrdem(L) ==
    \E d, e, t1, t2, t3, c \in 1..Len(L) :
        /\ d < e /\ e < t1 /\ t1 < t2 /\ t2 < t3 /\ t3 < c
        /\ L[d].k = "date" /\ L[e].k = "exec"
        /\ L[t1].k = "time" /\ L[t2].k = "time" /\ L[t3].k = "time"
        /\ L[c].k \in {"sim", "nao"}

\* The same six at position d with only whitespace between them: the
\* executor's further words, free of digits, run up to the first time at t
Seguidos(L, d, t) ==
    /\ d + 2 <= t /\ t + 3 <= Len(L)
    /\ L[d].k = "date" /\ L[d + 1].k = "exec"
    /\ \A m \in (d + 2)..(t - 1) : L[m].k = "word"
    /\ L[t].k = "time" /\ L[t + 1].k = "time" /\ L[t + 2].k = "time"
    /\ L[t + 3].k \in {"sim", "nao"}

\* The record the claim describes for the six tokens at d and t
RegistroEsperado(L, d, t) ==
    [ data      |-> normalizar_data(L[d].v),
      executor  |-> [m \in 1..(t - d - 1) |-> L[d + m].v],
      hr_inicio |-> L[t].v,
      hr_fim    |-> L[t + 1].v,
      total_hrs |-> L[t + 2].v,
      faturavel |-> (L[t + 3].k = "sim") ]

RegistrosDeA(n) == { k \in 1..Len(extr.fonte) : extr.fonte[k] = <<"A", n>> }

\* C19 as stated: every line that contains, in this order, a date, an
\* executor with a numeric code, three times and a Sim/Não marker yields
\* exactly one record of Strategy A.
C19_LineInOrderYieldsRecord ==
    "A" \in extr.ran =>
        \A n \in 1..Len(linhas) :
            ContemEmOrdem(linhas[n]) => Cardinality(RegistrosDeA(n)) = 1

\* C19 amended: when the six tokens follow each other separated only by
\* whitespace and the executor text has no digit, Strategy A yields exactly
\* one record for the line: the normalized date, the executor without its
\* code, the three times in order, billable exactly when the marker is Sim.
C19_AdjacentLineYieldsRecord ==
    "A" \in extr.ran =>
        \A n \in 1..Len(linhas) :
            \A d, t \in 1..Len(linhas[n]) :
                (/\ Seguidos(linhas[n], d, t)
                 /\ \A d2, t2 \in 1..Len(linhas[n]) :
                       Seguidos(linhas[n], d2, t2) => d <= d2) =>
                    /\ Cardinality(RegistrosDeA(n)) = 1
                    /\ \A k \in RegistrosDeA(n) :
                          extr.registros[k] = RegistroEsperado(linhas[n], d, t)

C19_Witness ==
    /\ extr.pc = "done"
    /\ Len(linhas) = 2 /\ linhas[1] = LinhaA2 /\ linhas[2] = LinhaA1
    /\ Len(extr.registros) = 2
    /\ extr.registros[1].executor = << <<"Simone">>, <<"Souza">> >>
    /\ ~extr.registros[1].faturavel
    /\ extr.registros[2] =
          [ data |-> D_05_01_2024, executor |-> << <<"Maria Silva">> >>,
            hr_inicio |-> T_08_00_00, hr_fim |-> T_12_00_00,
            total_hrs |-> T_04_00_00, faturavel |-> TRUE ]

\* HH:MM:SS with two digits in every field
IsHHMMSS(x) ==
    /\ Len(x) = 8
    /\ x[3] = ":" /\ x[6] = ":"
    /\ \A i \in {1, 2, 4, 5, 7, 8} : IsDigit(x[i])

\* C20: in every record of every strategy, start, end and total are
\* zero-padded HH:MM:SS strings, also when the source writes the hour with
\* one digit.
C20_TimesZeroPadded ==
    \A k \in 1..Len(extr.registros) :
        /\ IsHHMMSS(extr.registros[k].hr_inicio)
        /\ IsHHMMSS(extr.registros[k].hr_fim)
        /\ IsHHMMSS(extr.registros[k].total_hrs)

(***************************************************************************)
(* The record date and the poster's strptime                               *)
(***************************************************************************)
\* C21: the date of every record the extraction produced, as normalizar_data
\* left it, is a calendar date in dd/mm/YYYY form, so that the poster's
\* strptime of it succeeds.
C21_RecordDateParses ==
    \A k \in 1..Len(extr.registros) :
        /\ StrptimeOk(extr.registros[k].data)
        /\ PostPrepare(Registro(extr.registros[k].data,
                                extr.registros[k].total_hrs, <<>>)).pc # "raised"

(***************************************************************************)
(* The attempt detail of the aggregated error                              *)
(***************************************************************************)
\* What an attempt summary tells of the POST it reports: the status code of
\* a response that is an error, "EXC" for anything that raised in the try
Resumo(ep, pay, resp) ==
    [ ep |-> ep, pay |-> pay,
      st |-> IF resp.kind = "resp" /\ resp.status >= 400 THEN "HTTP" ELSE "EXC",
      status |-> IF resp.kind = "resp" /\ resp.status >= 400 THEN resp.status ELSE 0 ]

ResumoDoPost(j) ==
    Resumo(poster.posts[j].ep, poster.posts[j].pay, poster.posts[j].resp)

TotalFailure == poster.pc = "raised" /\ poster.error = "HTTPError"

\* C22 as stated: on total failure the retained attempts are ordered most
\* recent first: the summary of the last attempt made comes first and that of
\* the third-from-last comes last.
C22_DetailMostRecentFirst ==
    TotalFailure =>
        LET n == Len(poster.posts)
        IN  \A k \in 1..Len(poster.detail) :
                poster.detail[k] = ResumoDoPost(n - k + 1)

\* C22 amended: on total failure the detail holds the summaries of the last
\* three attempts in the order they were made: the third-from-last attempt
\* first and the last attempt last.
C22_DetailInAttemptOrder ==
    TotalFailure =>
        LET n == Len(poster.posts)
        IN  /\ Len(poster.detail) = 3
            /\ \A k \in 1..3 : poster.detail[k] = ResumoDoPost(n - 3 + k)

C22_Witness ==
    /\ TotalFailure
    /\ Len(poster.posts) = 16
    /\ poster.posts[15].resp = TimedOut
    /\ poster.detail[2].st = "EXC"
    /\ poster.detail[3].pay = 8

(***************************************************************************)
(* Strategy C: the total of a line with two or three times                 *)
(***************************************************************************)
\* Seconds as HH:MM:SS
FmtHMS(seg) ==
    Fmt2(seg \div 3600) \o <<":">> \o Fmt2((seg % 3600) \div 60) \o <<":">>
        \o Fmt2(seg % 60)

\* End minus start, the end advanced by one day when it is before the start
FimMenosInicio(hr_inicio, hr_fim) ==
    LET a == HmsSeconds(hr_inicio)
        b == HmsSeconds(hr_fim)
    IN  IF b < a THEN b + 86400 - a ELSE b - a

\* C23: a Strategy C record of a line with exactly two time tokens has as
\* total the end minus the start (plus one day when the end is before the
\* start), formatted HH:MM:SS, for hours of one or two digits; with a third
\* time token the total is that token unchanged.
C23_TotalFromStartAndEnd ==
    \A k \in 1..Len(extr.registros) :
        extr.fonte[k][1] = "C" =>
            LET L == linhas[extr.fonte[k][2]]
                horarios == Kinds(L, "time")
                r == extr.registros[k]
            IN  /\ Len(horarios) = 2 =>
                      r.total_hrs = FmtHMS(FimMenosInicio(L[horarios[1]].v,
                                                          L[horarios[2]].v))
                /\ Len(horarios) > 2 => r.total_hrs = L[horarios[3]].v

(***************************************************************************)
(* buscar_descricao_serv_exec                                              *)
(*                                                                         *)
(* A line is [k, v]: k tells which of the code's patterns the stripped     *)
(* line matches and v is the text the code keeps of it, as characters:     *)
(*   "header"    contains Serviço Exec (v: the text after ':' or '-')      *)
(*   "registro"  starts a record (date, code, '-')                         *)
(*   "delim"     contains a delimiter word (Total Hr, Assinatura, ...)     *)
(*   "sep"       dashes or dots only       "digitos"  digits only          *)
(*   "vazia"     empty                     "texto"    anything else        *)
(* Indexes of lines count from 0, as in the code.                          *)
(***************************************************************************)
Linha(k, v) == [k |-> k, v |-> v]

LinhaEm(ls, i) == ls[i + 1]

Max2(a, b) == IF a > b THEN a ELSE b

Min2(a, b) == IF a < b THEN a ELSE b

inicio_busca(idx) == Max2(0, idx - 2)

fim_busca(ls, idx) == Min2(Len(ls), idx + 25)

\* The i of the outer loop at which the header test succeeds, -1 when the
\* loop ends without it
HeaderIndex(ls, idx) ==
    LET hs == { i \in inicio_busca(idx)..(fim_busca(ls, idx) - 1) :
                    LinhaEm(ls, i).k = "header" }
    IN  IF hs = {} THEN -1 ELSE Min(hs)

RECURSIVE ColetaDesc(_, _, _, _)
\* The inner loop, from line j to the line before fim
ColetaDesc(ls, j, fim, desc_partes) ==
    IF j >= fim THEN desc_partes
    ELSE LET l2 == LinhaEm(ls, j)
         IN  IF l2.k = "vazia" THEN ColetaDesc(ls, j + 1, fim, desc_partes)
             ELSE IF l2.k \in {"registro", "delim"} THEN desc_partes
             ELSE IF l2.k \in {"sep", "digitos"}
                  THEN ColetaDesc(ls, j + 1, fim, desc_partes)
             ELSE ColetaDesc(ls, j + 1, fim, Append(desc_partes, l2.v))

RECURSIVE Collapse(_)
\* re.sub(r'\s+', ' ', texto)
Collapse(t) ==
    IF Len(t) < 2 THEN t
    ELSE IF t[1] = " " /\ t[2] = " " THEN Collapse(Tail(t))
    ELSE <<t[1]>> \o Collapse(Tail(t))

TrailChars == {",", " ", "-", "_"}

RECURSIVE RStripTrail(_)
RStripTrail(t) ==
    IF t # <<>> /\ t[Len(t)] \in TrailChars
    THEN RStripTrail(SubSeq(t, 1, Len(t) - 1))
    ELSE t

\* Lines 1285-1290
TextoFinal(desc_partes) ==
    LET t1 == Strip(Collapse(Join(desc_partes, <<" ">>)))
        t2 == IF t1 # <<>> /\ t1[Len(t1)] \in TrailChars
              THEN RStripTrail(t1) \o <<".">> ELSE t1
    IN  IF t2 # <<>> /\ t2[Len(t2)] \notin {".", "!", "?", ":"}
        THEN t2 \o <<".">> ELSE t2

\* The function: the text it returns, with the header line it used
buscar_descricao_serv_exec(ls, idx) ==
    LET i == HeaderIndex(ls, idx)
        partes == IF i < 0 THEN <<>>
                  ELSE ColetaDesc(ls, i + 1, Min2(i + 30, Len(ls)),
                                  IF LinhaEm(ls, i).v # <<>>
                                  THEN <<LinhaEm(ls, i).v>> ELSE <<>>)
    IN  [ header |-> i,
          texto  |-> IF partes = <<>> THEN <<>> ELSE TextoFinal(partes) ]

\* The sentence the callers put in place of an empty description
FraseFallback == <<"A", "t", "i", "v", "i", "d", "a", "d", "e", ".">>

\* Lines 457-459, 499 and 539
desc_exec(ls, idx) ==
    LET d == buscar_descricao_serv_exec(ls, idx).texto
    IN  IF d = <<>> THEN FraseFallback ELSE d

\* Documents: n lines, the record at line a, a header at line h1 (none when
\* h1 = -1) followed by the line segue, a second header two lines below the
\* first when dois, plain text everywhere else
MaxDocLines == 29

MaxAnchor == 3

TextoOk == <<"o", "k">>

Seguintes ==
    { Linha("texto", <<"a", " ", " ", "b", " ", "-">>), Linha("vazia", <<>>),
      Linha("delim", <<>>), Linha("sep", <<>>), Linha("digitos", <<>>) }

Inlines == { <<>>, <<"f", "e", "i", "t", "o", "!">> }

Documento(n, a, h1, dois, inline, segue) ==
    [ m \in 1..n |->
        LET i == m - 1
        IN  IF i = a THEN Linha("registro", <<>>)
            ELSE IF i = h1 THEN Linha("header", inline)
            ELSE IF h1 >= 0 /\ dois /\ i = h1 + 2 THEN Linha("header", TextoOk)
            ELSE IF h1 >= 0 /\ i = h1 + 1 THEN segue
            ELSE Linha("texto", TextoOk) ]

OthersIdleForDesc ==
    BaseIdle /\ carga = IdleCarga /\ cache = IdleCache /\ auth = IdleAuth

InitDesc ==
    /\ \E n \in 1..MaxDocLines, a \in 0..MaxAnchor, dois \in BOOLEAN,
          inline \in Inlines, segue \in Seguintes :
          /\ a < n
          /\ \E h1 \in (-1)..(n - 1) :
                /\ h1 # a
                /\ desc = [IdleDesc EXCEPT
                              !.linhas = Documento(n, a, h1, dois, inline, segue),
                              !.idx = a]
    /\ OthersIdleForDesc

BuscarDescricao ==
    /\ desc.pc = "idle"
    /\ LET r == buscar_descricao_serv_exec(desc.linhas, desc.idx)
       IN  desc' = [desc EXCEPT
                      !.pc = "done",
                      !.result = [ header    |-> r.header,
                                   texto     |-> r.texto,
                                   descricao |-> desc_exec(desc.linhas, desc.idx) ]]
    /\ UNCHANGED <<baseVars, carga, cache, auth>>

NextDesc == BuscarDescricao

SpecDesc == InitDesc /\ [][NextDesc]_vars

\* The header lines of the window the claim names
HeadersDaJanela(ate) ==
    { i \in 0..(Len(desc.linhas) - 1) :
          /\ desc.idx - 2 <= i /\ i <= desc.idx + ate
          /\ LinhaEm(desc.linhas, i).k = "header" }

\* C24: the search finds a header exactly when a header line lies at an
\* index from the anchor minus 2 to the anchor plus 25; it uses the one with
\* the smallest index; with no header in that window it returns the empty
\* string; and the description the caller stores is never empty.
C24_HeaderWindow ==
    desc.pc = "done" =>
        LET W == HeadersDaJanela(25)
        IN  /\ desc.result.header >= 0 <=> W # {}
            /\ W # {} => desc.result.header = Min(W)
            /\ W = {} => desc.result.texto = <<>>
            /\ desc.result.descricao # <<>>

(***************************************************************************)
(* normalizar_data on strings that are not dates                           *)
(***************************************************************************)
\* Day, month and year digit groups joined by '/', '-' or '.'
BemFormada(d) ==
    LET parts == Split(Replace(Replace(d, "-", "/"), ".", "/"), "/")
    IN  Len(parts) = 3 /\ \A i \in 1..3 : IsDigits(parts[i])

\* C25: normalizar_data returns its argument unchanged for every string that
\* is not a well-formed date, those with exactly two separators included (it
\* has no outcome other than a returned string).
C25_MalformedUnchanged ==
    (norm.pc \in {"once", "twice"} /\ ~BemFormada(data_str)) =>
        norm.first = data_str

(***************************************************************************)
(* Reading persisted state: FichaManager.carregar_fichas and _read_logs    *)
(* on files with a malformed element                                       *)
(*                                                                         *)
(* A JSON object is the set of its keys; a sheet of the file is            *)
(* [id, keys, registros], registros being the key sets of its records.     *)
(***************************************************************************)
RegistroFields ==
    { "id", "data", "executor", "hr_inicio", "hr_fim", "descricao", "total_hrs",
      "faturavel", "tarefa_id", "tarefa_nome", "executor_id", "ml_sugestao",
      "ml_confianca" }

\* The fields of RegistroAtividade without a default
RegistroRequired ==
    { "id", "data", "executor", "hr_inicio", "hr_fim", "descricao", "total_hrs",
      "faturavel" }

FichaFields ==
    { "id", "cliente", "projeto_id", "vertical", "tipo_servico", "valor_hora",
      "registros", "data_criacao", "status" }

FichaRequired == FichaFields \ {"status"}

\* _filter_keys on the keys of d
filter_keys(d, allowed) == d \cap allowed

\* A dataclass constructor raises TypeError without a required field
ConstructorRaises(keys, required) == ~(required \subseteq keys)

\* Lines 866-870 for one record
reg_norm(r) == filter_keys(r \cup {"executor_id"}, RegistroFields)

\* Lines 864-875 for one sheet: the FichaServico built, or the raise
ficha_norm(ficha_data) ==
    LET regs == [k \in 1..Len(ficha_data.registros) |->
                     reg_norm(ficha_data.registros[k])]
        keys == filter_keys(ficha_data.keys \cup {"registros"}, FichaFields)
    IN  [ id        |-> ficha_data.id,
          keys      |-> keys,
          registros |-> regs,
          raises    |-> \/ \E k \in 1..Len(regs) :
                               ConstructorRaises(regs[k], RegistroRequired)
                        \/ ConstructorRaises(keys, FichaRequired) ]

\* carregar_fichas: the dictionary returned, and whether the except branch
\* of lines 879-881 was taken
carregar_fichas(exists, raw) ==
    LET loaded == [i \in 1..Len(raw) |-> ficha_norm(raw[i])]
    IN  IF ~exists THEN [fichas |-> <<>>, erro |-> FALSE]
        ELSE IF \E i \in 1..Len(loaded) : loaded[i].raises
             THEN [fichas |-> <<>>, erro |-> TRUE]
             ELSE [fichas |-> [i \in 1..Len(loaded) |->
                                 [ id |-> loaded[i].id, keys |-> loaded[i].keys,
                                   registros |-> loaded[i].registros ]],
                   erro |-> FALSE]

\* Sheets of a file
RegOk == RegistroRequired \cup {"tarefa_id"}

FichaOk == FichaFields \ {"registros"}

SheetKinds ==
    { [keys |-> FichaOk \cup {"registros"}, registros |-> <<RegOk>>],
      [keys |-> FichaOk, registros |-> <<>>],
      [keys |-> FichaOk \cup {"registros", "pdf_path"}, registros |-> <<RegOk>>],
      [keys |-> FichaOk \cup {"registros"},
       registros |-> <<RegOk, RegOk \cup {"obs"}>>],
      [keys |-> (FichaOk \cup {"registros"}) \ {"cliente"}, registros |-> <<RegOk>>],
      [keys |-> FichaOk \cup {"registros"},
       registros |-> <<RegOk, RegOk \ {"data"}>>] }

MaxSheets == 2

FichaFiles ==
    { [i \in 1..Len(q) |-> [id |-> i, keys |-> q[i].keys,
                            registros |-> q[i].registros]] :
          q \in SeqsUpTo(SheetKinds, MaxSheets) }

\* A line that is not JSON
Bad == JTok("bad", 0, 0)

\* Log files with one broken line among lines that are entries
BrokenLogFiles ==
    { <<E1, NL, Bad, NL, E2, NL>>,
      <<Bad, NL, E1, NL>>,
      <<E1, NL, E2, NL, Bad>>,
      <<E1, NL, E2, NL>> }

OthersIdleForCarga ==
    BaseIdle /\ desc = IdleDesc /\ cache = IdleCache /\ auth = IdleAuth

InitCarga ==
    /\ \E raw \in FichaFiles, content \in BrokenLogFiles, exists \in BOOLEAN :
          /\ ~exists => raw = <<>>
          /\ carga = [IdleCarga EXCEPT !.exists = exists, !.raw = raw,
                                       !.content = content]
    /\ OthersIdleForCarga

\* FichaManager.__init__
CarregarFichas ==
    /\ carga.pc_fichas = "idle"
    /\ LET r == carregar_fichas(carga.exists, carga.raw)
       IN  carga' = [carga EXCEPT !.pc_fichas = "done", !.fichas = r.fichas,
                                  !.erro = r.erro]
    /\ UNCHANGED <<baseVars, desc, cache, auth>>

LerLogsDoArquivo ==
    /\ carga.pc_logs = "idle"
    /\ carga' = [carga EXCEPT !.pc_logs = "done",
                              !.lidos = read_logs(TRUE, carga.content)]
    /\ UNCHANGED <<baseVars, desc, cache, auth>>

NextCarga == CarregarFichas \/ LerLogsDoArquivo

SpecCarga == InitCarga /\ [][NextCarga]_vars

\* A sheet of the file with every required field, in it and in its records
BemFormadaFicha(f) ==
    /\ FichaRequired \ {"registros"} \subseteq f.keys
    /\ \A k \in 1..Len(f.registros) : RegistroRequired \subseteq f.registros[k]

\* The entries of the lines of the file that are JSON objects, in order
EntradasBoas(content) ==
    LET objs == SelectSeq(content, LAMBDA x : x.k = "obj")
    IN  [i \in 1..Len(objs) |-> EntryOf(objs[i])]

\* C26: a read of persisted state with one malformed element returns all
\* the well-formed elements: _read_logs returns the entry of every line but
\* the bad one, and carregar_fichas loads every well-formed sheet, without
\* its unknown fields, also when another sheet or record of the file lacks a
\* required field.
C26_MalformedElementSkipped ==
    /\ carga.pc_logs = "done" => carga.lidos = EntradasBoas(carga.content)
    /\ carga.pc_fichas = "done" =>
          \A i \in 1..Len(carga.raw) :
              BemFormadaFicha(carga.raw[i]) =>
                  \E j \in 1..Len(carga.fichas) :
                      /\ carga.fichas[j].id = carga.raw[i].id
                      /\ carga.fichas[j].keys \subseteq FichaFields
                      /\ \A k \in 1..Len(carga.fichas[j].registros) :
                            carga.fichas[j].registros[k] \subseteq RegistroFields

(***************************************************************************)
(* TeamworkClient.get_tasks_for_project and its cache                      *)
(*                                                                         *)
(* _tasks_cache is has (the keys present) and val (their lists). The       *)
(* server holds versao tasks per project, and more as time passes; task 1  *)
(* is a completed one.                                                     *)
(***************************************************************************)
Projects == {7, 8}

CacheKeys == Projects \X BOOLEAN

Tag(v) == [given |-> TRUE, v |-> v]

TagFilters == { NoTag, Tag(<<>>), Tag(<<"X">>) }

PageSizes == {2}

\* The task with number i as the server returns it in a page
TaskJson(i) ==
    [ id        |-> i,
      content   |-> IF i = 1 THEN <<"a", "x">> ELSE <<"b">>,
      tags      |-> IF i = 2 THEN << <<"x">> >> ELSE <<>>,
      completed |-> i = 1 ]

\* What the project's task list is on the server for the request's
\* includeCompletedTasks
ServerTasks(versao, include_completed) ==
    SelectSeq([i \in 1..versao |-> TaskJson(i)],
              LAMBDA t : include_completed \/ ~t.completed)

RECURSIVE FetchPages(_, _, _, _)
\* The while loop of lines 184-205: the tasks aggregated and the number of
\* requests sent, from page on
FetchPages(server, page, page_size, acc) ==
    LET idx == ServerPage(Len(server), page, page_size)
        page_items == [k \in 1..Len(idx) |-> server[idx[k]]]
        got == [ aggregated |-> acc.aggregated \o page_items,
                 requests   |-> acc.requests + 1 ]
    IN  IF page_items = <<>> THEN got
        ELSE IF Len(page_items) < page_size THEN got
        ELSE FetchPages(server, page + 1, page_size, got)

\* Lines 208-212
Enrich(task, project_id) ==
    [ id |-> task.id, content |-> task.content, _project_id |-> project_id,
      _tag_names |-> task.tags ]

\* _normalize_tag on text without accents, slashes or colons
normalize_tag(tag) == Strip(Collapse(Lower(tag)))

\* Lines 219-228
FilterByTag(tasks, tag_filter) ==
    LET tag_norm == normalize_tag(tag_filter)
    IN  SelectSeq(tasks, LAMBDA t :
            \/ \E k \in 1..Len(t._tag_names) : normalize_tag(t._tag_names[k]) = tag_norm
            \/ SearchIgnoreCase(tag_norm, normalize_tag(t.content)))

\* Line 179 without the test of tag_filter
CacheHitMut(c, cache_key, tag_filter, use_cache) ==
    use_cache /\ cache_key \in c.has

\* Line 179
CacheHit(c, cache_key, tag_filter, use_cache) ==
    use_cache /\ cache_key \in c.has /\ ~tag_filter.given

\* Line 215
CacheStore(tag_filter, use_cache) == use_cache /\ ~tag_filter.given

\* get_tasks_for_project on the client state c; falha: the server answers
\* the first request with an error status, which _request raises
get_tasks_for_project(c, project_id, include_completed, tag_filter, page_size, use_cache, falha) ==
    LET cache_key == <<project_id, include_completed>>
        call == [ project_id |-> project_id, include_completed |-> include_completed,
                  tag_filter |-> tag_filter, use_cache |-> use_cache,
                  page_size |-> page_size, requests |-> 0, raised |-> FALSE,
                  result |-> <<>> ]
        filtrar(tasks) == IF tag_filter.given /\ tag_filter.v # <<>>
                          THEN FilterByTag(tasks, tag_filter.v) ELSE tasks
    IN  IF CacheHit(c, cache_key, tag_filter, use_cache)
        THEN [c EXCEPT !.last = [call EXCEPT !.result = filtrar(c.val[cache_key])]]
        ELSE IF falha
        THEN [c EXCEPT !.last = [call EXCEPT !.requests = 1, !.raised = TRUE]]
        ELSE LET f == FetchPages(ServerTasks(c.versao, include_completed), 1,
                                 page_size, [aggregated |-> <<>>, requests |-> 0])
                 tasks == [k \in 1..Len(f.aggregated) |->
                               Enrich(f.aggregated[k], project_id)]
                 store == CacheStore(tag_filter, use_cache)
             IN  [c EXCEPT
                    !.has = IF store THEN @ \cup {cache_key} ELSE @,
                    !.val = IF store THEN [@ EXCEPT ![cache_key] = tasks] ELSE @,
                    !.last = [call EXCEPT !.requests = f.requests,
                                          !.result = filtrar(tasks)]]

MaxCalls == 3

MaxVersao == 2

OthersIdleForCache ==
    BaseIdle /\ desc = IdleDesc /\ carga = IdleCarga /\ auth = IdleAuth

\* TeamworkClient.__init__: an empty cache
InitCache ==
    /\ cache = [IdleCache EXCEPT !.val = [k \in CacheKeys |-> <<>>]]
    /\ OthersIdleForCache

GetTasksForProject ==
    /\ cache.ncalls < MaxCalls
    /\ \E project_id \in Projects, include_completed \in BOOLEAN,
          tag_filter \in TagFilters, page_size \in PageSizes,
          use_cache \in BOOLEAN, falha \in BOOLEAN :
          cache' = [ get_tasks_for_project(cache, project_id, include_completed,
                                           tag_filter, page_size, use_cache, falha)
                     EXCEPT !.ncalls = cache.ncalls + 1 ]
    /\ UNCHANGED <<baseVars, desc, carga, auth>>

\* A task is added to the projects on the server
ServerChanges ==
    /\ cache.versao < MaxVersao
    /\ cache' = [cache EXCEPT !.versao = @ + 1]
    /\ UNCHANGED <<baseVars, desc, carga, auth>>

NextCache == GetTasksForProject \/ ServerChanges

SpecCache == InitCache /\ [][NextCache]_vars

\* The step is a call of get_tasks_for_project for the key k
CallFor(k) ==
    /\ cache'.ncalls = cache.ncalls + 1
    /\ <<cache'.last.project_id, cache'.last.include_completed>> = k

CacheEntryUnchanged(k) ==
    /\ (k \in cache'.has) <=> (k \in cache.has)
    /\ cache'.val[k] = cache.val[k]

\* C27: the cache entry of a key is written only by a call for that key with
\* use_cache true and no tag filter (tag_filter None) that missed the cache,
\* and is never overwritten or removed afterwards; once it exists, every call
\* for the key with use_cache true and no tag filter returns the cached tasks
\* without any HTTP request; a call with a tag filter or with use_cache false
\* always sends a request to the server and leaves the cache unchanged.
C27_CacheWriteOnceReadAlways ==
    [][\A k \in CacheKeys :
          /\ ~CacheEntryUnchanged(k) =>
                /\ CallFor(k) /\ k \notin cache.has
                /\ cache'.last.use_cache /\ ~cache'.last.tag_filter.given
          /\ (k \in cache.has) => CacheEntryUnchanged(k)
          /\ ( /\ CallFor(k) /\ k \in cache.has
               /\ cache'.last.use_cache /\ ~cache'.last.tag_filter.given ) =>
                /\ cache'.last.requests = 0 /\ ~cache'.last.raised
                /\ cache'.last.result = cache.val[k]
          /\ (CallFor(k) /\ (cache'.last.tag_filter.given \/ ~cache'.last.use_cache)) =>
                /\ cache'.last.requests >= 1
                /\ \A j \in CacheKeys : CacheEntryUnchanged(j)
    ]_vars

\* A call answered from the cache after the server's list has changed
C27_Witness ==
    /\ cache.last.use_cache /\ ~cache.last.tag_filter.given
    /\ cache.last.requests = 0 /\ cache.ncalls >= 2
    /\ Len(cache.last.result) = 1
    /\ cache.versao = 2
    /\ cache.last.include_completed

(***************************************************************************)
(* TeamworkClient: the constructor, _set_auth_mode and _request            *)
(*                                                                         *)
(* A response is its status code; 0 stands for session.request raising     *)
(* (a timeout, a refused connection). nsent counts the requests sent.      *)
(***************************************************************************)
\* The auth_mode arguments a client is built with ("" for None or '')
ConfiguredModes == {"", "auto", "AUTO", "basic", "bearer", "Bearer", "token"}

\* (auth_mode or "auto").lower() on these arguments
LowerMode(auth_mode) ==
    IF auth_mode \in {"", "AUTO"} THEN "auto"
    ELSE IF auth_mode = "Bearer" THEN "bearer"
    ELSE auth_mode

\* _set_auth_mode: the active mode it leaves (the header follows it)
set_auth_mode(mode) == IF mode \in {"basic", "bearer"} THEN mode ELSE "basic"

\* TeamworkClient.__init__
TeamworkClientInit(auth_mode) ==
    [IdleAuth EXCEPT !.pc = "ready",
                     !.auth_mode = LowerMode(auth_mode),
                     !.active_mode = set_auth_mode("basic"),
                     !.ctor_mode = set_auth_mode("basic")]

Statuses == {0, 200, 401, 404, 500}

\* raise_for_status
RaisesForStatus(status) == status >= 400

\* Line 103 with every error status retried
ShouldRetryMut(status) == status >= 400

\* Line 103
ShouldRetry(status) == status = 401

\* Line 104
AltMode(active_mode) == IF active_mode = "basic" THEN "bearer" ELSE "basic"

Sent(mode, status) == [mode |-> mode, status |-> status]

\* _request on the client a, the server answering the first request with
\* r1 and a second with r2
request(a, r1, r2) ==
    LET first == Sent(a.active_mode, r1)
    IN  IF r1 = 0
        THEN [a EXCEPT !.last = [sent |-> <<first>>, raised |-> TRUE]]
        ELSE IF a.auth_mode # "auto"
        THEN [a EXCEPT !.last = [sent |-> <<first>>,
                                 raised |-> RaisesForStatus(r1)]]
        ELSE IF ShouldRetry(r1)
        THEN LET alt == set_auth_mode(AltMode(a.active_mode))
             IN  [a EXCEPT !.active_mode = alt,
                           !.last = [sent |-> <<first, Sent(alt, r2)>>,
                                     raised |-> r2 = 0 \/ RaisesForStatus(r2)]]
        ELSE [a EXCEPT !.last = [sent |-> <<first>>,
                                 raised |-> RaisesForStatus(r1)]]

MaxRequests == 4

OthersIdleForAuth ==
    BaseIdle /\ desc = IdleDesc /\ carga = IdleCarga /\ cache = IdleCache

InitAuth ==
    /\ \E auth_mode \in ConfiguredModes : auth = TeamworkClientInit(auth_mode)
    /\ OthersIdleForAuth

Request ==
    /\ auth.ncalls < MaxRequests
    /\ \E r1 \in Statuses, r2 \in Statuses :
          LET a == request(auth, r1, r2)
          IN  auth' = [a EXCEPT !.ncalls = auth.ncalls + 1,
                                !.nsent = auth.nsent + Len(a.last.sent)]
    /\ UNCHANGED <<baseVars, desc, carga, cache>>

NextAuth == Request

SpecAuth == InitAuth /\ [][NextAuth]_vars

\* C28: the active mode changes only in a _request of a client configured
\* 'auto' whose first response is 401: it then toggles between basic and
\* bearer, exactly one retry is sent with the new mode, and the new mode is
\* kept whatever the retry's outcome (the next _request starts with it). In
\* every other case _request sends exactly one request and leaves the mode
\* unchanged; a client configured with another mode always uses the mode the
\* constructor set.
C28_AuthModeToggle ==
    [][LET sent == auth'.last.sent
           toggles == auth.auth_mode = "auto" /\ sent[1].status = 401
       IN  /\ auth'.ncalls = auth.ncalls + 1
           /\ sent[1].mode = auth.active_mode
           /\ auth'.active_mode # auth.active_mode => toggles
           /\ toggles =>
                 /\ auth'.active_mode # auth.active_mode
                 /\ {auth.active_mode, auth'.active_mode} = {"basic", "bearer"}
                 /\ Len(sent) = 2 /\ sent[2].mode = auth'.active_mode
                 /\ auth'.nsent = auth.nsent + 2
           /\ ~toggles =>
                 /\ Len(sent) = 1 /\ auth'.active_mode = auth.active_mode
                 /\ auth'.nsent = auth.nsent + 1
           /\ auth.auth_mode # "auto" =>
                 /\ auth'.active_mode = auth.ctor_mode
                 /\ \A k \in 1..Len(sent) : sent[k].mode = auth.ctor_mode
    ]_vars

\* A request sent with bearer after an earlier toggle whose retry failed too,
\* then answered 401 and retried with basic
C28_Witness ==
    /\ auth.auth_mode = "auto" /\ auth.ncalls = 2
    /\ Len(auth.last.sent) = 2
    /\ auth.last.sent[1] = Sent("bearer", 401)
    /\ auth.last.sent[2] = Sent("basic", 500)
    /\ auth.active_mode = "basic" /\ auth.last.raised

(***************************************************************************)
(* The decimal-hours payloads and the one-minute floor                     *)
(***************************************************************************)
\* The record's total in seconds (0 for an empty or malformed total)
TotalSeg == IF HmsParses(reg.total_hrs) THEN HmsSeconds(reg.total_hrs) ELSE 0

RoundsToZeroMinutes == 2 * TotalSeg <= 60

DecimalPosts == { i \in 1..Len(poster.posts) : poster.posts[i].te.durEnc = "decimal" }

HmPosts == { i \in 1..Len(poster.posts) : poster.posts[i].te.durEnc = "hm" }

\* The decimal payloads carry the hundredths of an hour nearest to the
\* total, and the floor shows in the integer payloads only
DecimalUnfloored ==
    /\ \A i \in DecimalPosts :
          /\ poster.posts[i].te.hours = -1 /\ poster.posts[i].te.minutes = -1
          /\ (36 * poster.posts[i].te.hours_dec - TotalSeg) \in (-18)..18
    /\ RoundsToZeroMinutes =>
          \A i \in HmPosts :
              poster.posts[i].te.hours = 0 /\ poster.posts[i].te.minutes = 1

\* C29 as stated: the decimal payloads carry hours + minutes/60 +
\* seconds/3600 to two decimals without a floor, so that for a record whose
\* total rounds to zero minutes the integer payloads carry 1 minute and the
\* decimal payloads carry a zero duration.
C29_DecimalZeroWhenMinutesZero ==
    /\ DecimalUnfloored
    /\ RoundsToZeroMinutes =>
          \A i \in DecimalPosts : poster.posts[i].te.hours_dec = 0

\* C29 amended: as above, but for a record whose total rounds to zero
\* minutes the decimal payloads carry zero only when the total is under 18
\* seconds (or empty or malformed); from 18 to 30 seconds they carry 0.01
\* hours. (At 18 seconds exactly the binary sum decides; no such total is
\* modelled.)
C29_DecimalUnflooredValue ==
    /\ DecimalUnfloored
    /\ \A i \in DecimalPosts :
          /\ TotalSeg < 18 => poster.posts[i].te.hours_dec = 0
          /\ (TotalSeg > 18 /\ RoundsToZeroMinutes) =>
                poster.posts[i].te.hours_dec = 1

C29_Witness ==
    /\ reg.total_hrs = <<"0", "0", ":", "0", "0", ":", "2", "9">>
    /\ \E i \in DecimalPosts, j \in HmPosts :
          /\ poster.posts[i].te.hours_dec = 1
          /\ poster.posts[i].te.style = "camel"
          /\ poster.posts[j].te.minutes = 1 /\ poster.posts[j].te.hours = 0

(***************************************************************************)
(* criar_ficha and the sheets already stored                               *)
(***************************************************************************)
RECURSIVE TotalRegistros(_)
TotalRegistros(fichas) ==
    IF fichas = <<>> THEN 0
    ELSE Len(fichas[1].registros) + TotalRegistros(Tail(fichas))

\* C30: every call of criar_ficha adds a sheet under an id not used before:
\* after any sequence of calls, however close in time, there are as many
\* sheets stored (and persisted) as there were calls, and every record added
\* to a sheet is still there.
C30_CriarFichaAddsNewSheet ==
    /\ Len(ficha.fichas) = ficha.criadas
    /\ Len(ficha.fichas_file) = ficha.criadas
    /\ TotalRegistros(ficha.fichas) = ficha.nregs
    /\ \A i, j \in 1..Len(ficha.fichas) :
          ficha.fichas[i].id = ficha.fichas[j].id => i = j

====
